---- MODULE Spec2Model ----
(***************************************************************************)
(* Verification model of the Reflexible VS Code extension's session        *)
(* orchestration: the SSE pump of monitorSession, its caller               *)
(* startAISession, the ephemeral project (execution context) handle, the   *)
(* todo lists of the two webviews, and apiFetch with the stored API key.   *)
(*                                                                         *)
(* Text is modelled as a sequence of tokens.  "NL" is the newline          *)
(* character, "SP" a blank, "D" the line prefix `data:`, "E" the line      *)
(* prefix `event:`; the remaining tokens are payload texts: "p", "k", "x"  *)
(* are the JSON objects of type progress, complete and error, "c" and "d"  *)
(* are content objects with two different message texts, "e" is a content  *)
(* object without message text, "j" is a text that is not valid JSON.      *)
(***************************************************************************)
EXTENDS Integers, Sequences, FiniteSets, TLC

\* ------------------------------------------------------------------ bounds
\* Largest number of frames the server writes into one event stream.
MaxFrames == 3

\* ------------------------------------------------------- the frame decoder

\* The JSON texts a frame payload can consist of, and a text JSON.parse rejects.
JsonObjects == {"p", "c", "d", "e", "k", "x"}

Payloads == JsonObjects \cup {"j"}

\* parsed.type of each JSON object
TypeOf(tok) ==
  CASE tok = "p" -> "progress"
    [] tok \in {"c", "d", "e"} -> "content"
    [] tok = "k" -> "complete"
    [] tok = "x" -> "error"
    [] OTHER -> "unknown"

\* parsed.message of each JSON object, as the text `parsed.message || ''`
MessageOf(tok) == IF tok = "e" THEN <<>> ELSE <<tok>>

\* String.prototype.split(sep) for a separator of one or two newlines:
\* scans left to right, cuts at every non-overlapping occurrence.
RECURSIVE SplitFrom(_, _, _, _)
SplitFrom(s, i, cur, width) ==
  IF i > Len(s) THEN <<cur>>
  ELSE IF /\ i + width - 1 <= Len(s)
          /\ \A d \in 0..(width - 1) : s[i + d] = "NL"
       THEN <<cur>> \o SplitFrom(s, i + width, <<>>, width)
       ELSE SplitFrom(s, i + 1, Append(cur, s[i]), width)

\* buffer.split('\n\n')
SplitFrames(s) == SplitFrom(s, 1, <<>>, 2)

\* part.split('\n')
SplitLines(s) == SplitFrom(s, 1, <<>>, 1)

\* String.prototype.trim(): strips leading and trailing blanks
RECURSIVE TrimLeft(_)
TrimLeft(s) ==
  IF s # <<>> /\ s[1] = "SP" THEN TrimLeft(Tail(s)) ELSE s

RECURSIVE TrimRight(_)
TrimRight(s) ==
  IF s # <<>> /\ s[Len(s)] = "SP" THEN TrimRight(SubSeq(s, 1, Len(s) - 1)) ELSE s

trim(s) == TrimRight(TrimLeft(s))

\* The inner loop over the lines of one frame: `event` and `data` after it.
RECURSIVE ParseLines(_, _, _)
ParseLines(lines, i, acc) ==
  IF i > Len(lines) THEN acc
  ELSE LET line == lines[i]
           ev == IF line # <<>> /\ line[1] = "E" THEN trim(Tail(line)) ELSE acc.event
           da == IF line # <<>> /\ line[1] = "D" THEN acc.data \o trim(Tail(line)) ELSE acc.data
       IN ParseLines(lines, i + 1, [event |-> ev, data |-> da])

ParseFrame(part) ==
  ParseLines(SplitLines(part), 1, [event |-> <<"message">>, data |-> <<>>])

\* JSON.parse(data): succeeds on exactly one JSON object text, throws otherwise
\* (empty text, text that is no JSON, two objects run together).
JsonParse(data) ==
  IF Len(data) = 1 /\ data[1] \in JsonObjects
  THEN [ok |-> TRUE, type |-> TypeOf(data[1]), message |-> MessageOf(data[1])]
  ELSE [ok |-> FALSE, type |-> "none", message |-> <<>>]

\* What the pump keeps as the buffer after splitting: parts.pop() || ''
NoLeftover(parts) == <<>>

\* parts.pop() taken for parts.shift()
FirstPart(parts) == parts[1]

Leftover(parts) == parts[Len(parts)]

\* The catch clause of the for-loop body: nothing is done, the loop goes on
\* with the next part.
StopAfterCatch(parts, i) == Len(parts) + 1

NextAfterCatch(parts, i) == i + 1

\* assistantResponse += parsed.message || ''
ReplaceContent(resp, message) == message

AppendContent(resp, message) == resp \o message

\* The for-loop of pump over the complete parts of one chunk.
\* st = [resp: assistantResponse, applied: events dispatched so far,
\*       sink: what progress/chatProvider received, completed: returned at complete]
RECURSIVE ApplyParts(_, _, _)
ApplyParts(parts, i, st) ==
  IF i > Len(parts) THEN st
  ELSE LET parsed == JsonParse(ParseFrame(parts[i]).data)
       IN IF ~parsed.ok THEN ApplyParts(parts, NextAfterCatch(parts, i), st)
          ELSE IF parsed.type = "progress"
               THEN ApplyParts(parts, i + 1,
                      [st EXCEPT !.applied = Append(@, "progress"),
                                 !.sink = Append(@, <<"report">>)])
          ELSE IF parsed.type = "complete"
               THEN [st EXCEPT !.applied = Append(@, "complete"),
                               !.sink = IF st.resp # <<>>
                                        THEN Append(@, <<"assistant", st.resp>>)
                                        ELSE @,
                               !.completed = TRUE]
          ELSE IF parsed.type = "content"
               THEN ApplyParts(parts, i + 1,
                      [st EXCEPT !.applied = Append(@, "content"),
                                 !.resp = AppendContent(@, parsed.message)])
          ELSE IF parsed.type = "error"
               \* throw new Error(parsed.message) is inside the try block:
               \* the catch clause swallows it and the loop goes on
               THEN ApplyParts(parts, NextAfterCatch(parts, i),
                      [st EXCEPT !.applied = Append(@, "error")])
          ELSE ApplyParts(parts, i + 1, st)

Unpopped(parts) == parts

\* `parts` after parts.pop(): what the for-loop iterates over
Popped(parts) == SubSeq(parts, 1, Len(parts) - 1)

\* One pump iteration on a chunk: append to the buffer, split, keep the
\* last segment, apply the complete ones.
ProcessChunk(buf, chunk, st) ==
  LET parts == SplitFrames(buf \o chunk)
  IN [buffer |-> Leftover(parts), st |-> ApplyParts(Popped(parts), 1, st)]

\* ------------------------------------- the ephemeral project of a workspace
\* concurrent runs of startAISession and the new-session command, with the
\* SSE pump reduced to the way monitorSession settles

\* Number of startAISession runs (each command invocation is one run).
NumRuns == 2

Runs == 1..NumRuns

\* workspaceState.get(...) of a key that holds nothing
undefined == 0

VARIABLES
  ephemeralProjectId, \* workspaceState 'ephemeralProjectId'
  currentSessionId,   \* workspaceState 'currentSessionId'
  remoteProjects,     \* ephemeral projects the server holds (created, not cleaned up)
  sentCreate,         \* the runs that sent POST /api/v1/projects/ephemeral
  created,            \* ephemeral projects the server has created so far
  dispatched,         \* sessions the server has started
  rpc,                \* where each run of startAISession is suspended
  projectId,          \* startAISession: projectId of each run
  sessionId,          \* startAISession: sessionId of each run
  nspc,               \* where newSessionCommand is suspended
  overlapped,         \* the runs whose getEphemeralProject calls overlapped: one
                      \* entered it while the other's creation request was pending
  acquiredFrom,       \* how getEphemeralProject got each run's id: created, stored,
                      \* or stored and left by a cleanup that had failed
  cleanupResult,      \* the line cleanupEphemeralProject wrote last to the output channel
  runError,           \* the stage whose error reached the catch clause of each run
  reports,            \* showErrorMessage calls of each run
  caught,             \* error.message in the catch clause of each run
  dispatchRequests,   \* POST /api/v1/agent/dispatch requests of each run
  monitorCalls,       \* monitorSession calls of each run
  downloadCalls,      \* downloadArtifacts calls of each run
  downloaded          \* what downloadArtifacts returned to each run: nothing (0)
                      \* or artifacts (a positive count)

ctxVars == <<ephemeralProjectId, currentSessionId, remoteProjects,
             sentCreate, created, dispatched, rpc, projectId, sessionId, nspc, overlapped,
             acquiredFrom, cleanupResult, runError, reports, caught,
             dispatchRequests, monitorCalls, downloadCalls, downloaded>>

\* --------------------------------------------- one run of startAISession
\* from the call of monitorSession (the session is dispatched) to its end

VARIABLES
  stream,            \* the body the server writes to the SSE response
  pos,               \* how much of it reader.read() has delivered
  buffer,            \* pump: buffer
  assistantResponse, \* pump: assistantResponse
  applied,           \* the events the pump has dispatched on, in order
  sinkLog,           \* progress.report / chatProvider.addMessage calls of the pump
  pc,                \* where startAISession is suspended
  cancelRequested,   \* token.isCancellationRequested
  readStarted,       \* reader.read() has been called
  stopRequests,      \* POST /api/v1/agent/stop requests sent
  outcome,           \* how monitorSession settled
  errorMessage,      \* message of the error startAISession caught
  reported,          \* the catch clause showed 'Session failed: ...'
  downloads,         \* downloadArtifacts calls
  cleanups,          \* cleanupEphemeralProject calls
  eos,               \* the transport reported end-of-stream (done)
  appliedAtCancel,   \* Len(applied) when cancellation hit an in-flight read, else -1
  cutInDelim,        \* a chunk boundary fell inside a blank-line delimiter
  entryCancelled,    \* the token was already signaled at the first call of pump
  outstanding        \* reader.read() calls that have not settled

monVars == <<stream, pos, buffer, assistantResponse, applied, sinkLog, pc,
             cancelRequested, readStarted, stopRequests, outcome, errorMessage,
             reported, downloads, cleanups, eos, appliedAtCancel, cutInDelim,
             entryCancelled, outstanding>>

\* ------------------------------------------ the todo lists of the webviews

VARIABLES
  currentTodos,   \* chat panel webview: currentTodos
  panelTodos,     \* chat panel webview: the items of the .todos element, <<>> if none
  todoList,       \* sidebar webview: the children of #todoList
  todosHidden,    \* sidebar webview: #todos carries the class 'hidden'
  panelLast,      \* the item list of the last todo_update the panel received
  sidebarLast     \* the item list of the last todo_update the sidebar received

todoVars == <<currentTodos, panelTodos, todoList, todosHidden, panelLast, sidebarLast>>

\* ---------------------------------------------------- the stored API key

VARIABLES
  secret,         \* context.secrets 'reflexible.apiKey'
  apc,            \* where each apiFetch call is suspended
  apiResult,      \* how each apiFetch call ended
  sentRequests,   \* requests each apiFetch call has sent
  promptKind,     \* whether and in which situation each call asked for a key
  lastResponse,   \* the last response an apiFetch call received
  clearedBy       \* the call whose response deleted the key, 0 once a key is stored

apiVars == <<secret, apc, apiResult, sentRequests, promptKind, lastResponse, clearedBy>>

\* ------------------------------------------- downloadArtifacts and the disk

VARIABLES
  workspaceFolders, \* a workspace folder is open
  files,            \* the files below the workspace folder: path |-> bytes
  directories,      \* the directories below the workspace folder
  dlpc,             \* where the downloadArtifacts call is suspended
  data,             \* the answer to the artifact request of the call
  index,            \* position of the for-loop in data.artifacts
  result,           \* the count the call returned, -1 before
  fsCalls,          \* createDirectory and writeFile calls of the call
  writes,           \* writeFile calls of the call that succeeded
  failedIndex,      \* the artifact whose createDirectory or writeFile threw, 0 if none
  dlCalls,          \* downloadArtifacts calls started
  previous          \* the call before: its artifacts, how it ended, the disk it left

dlVars == <<workspaceFolders, files, directories, dlpc, data, index, result,
            fsCalls, writes, failedIndex, dlCalls, previous>>

\* ------------------------------------- ChatPanelManager.streamSSE (panel)

VARIABLES
  panelStream,      \* the text the server writes into the panel's event stream
  panelPos,         \* how much of it reader.read() has delivered
  panelBuffer,      \* streamSSE: buffer
  panelParts,       \* the parts of the chunk the for-loop has not come to yet
  panelPc,          \* where handleSendMessage / streamSSE is suspended
  panelPosted,      \* the types of the sse messages posted to the webview
  panelDownloads,   \* downloadArtifacts calls of streamSSE
  panelDownloadFailed, \* a downloadArtifacts call of streamSSE threw
  panelReadAfterComplete, \* a read was started after a complete frame was posted
  panelErrors       \* runs of the catch clause of handleSendMessage

panVars == <<panelStream, panelPos, panelBuffer, panelParts, panelPc, panelPosted,
             panelDownloads, panelDownloadFailed, panelReadAfterComplete, panelErrors>>

\* ChatViewProvider.streamSse (the sidebar's pump)
VARIABLES
  sideStream,        \* the SSE body of the session, as tokens
  sidePos,           \* tokens delivered so far
  sideBuffer,        \* `buffer`
  sidePc,            \* "connect", "reading", "returned", "failed"
  sidePosted,        \* data.type of every message posted to the webview
  sideReads,         \* reader.read() calls so far
  sideReadAfterTerminal \* a read was started after a complete or error frame was posted

sideVars == <<sideStream, sidePos, sideBuffer, sidePc, sidePosted, sideReads,
              sideReadAfterTerminal>>

\* the command reflexible.deleteFile
VARIABLES
  activeProject,     \* projectTree.getActiveProjectId() returns an id
  selected,          \* the selected tree items: TRUE for one that carries a file with an id
  delFiles,          \* `files`: positions in `selected` of the items kept by the filter
  delPc,             \* "start", "confirm", "loop", "done", "returned"
  delIndex,          \* files handled by the for-loop so far
  successCount,
  errorCount,
  attempts,          \* DELETE requests sent per selected item
  delLog,            \* the requests in the order they were answered, with the answer
  delShown           \* messages shown after the loop

delVars == <<activeProject, selected, delFiles, delPc, delIndex, successCount,
             errorCount, attempts, delLog, delShown>>

\* file-sync: openFile and saveFile on one remote file
VARIABLES
  fileCache,         \* <<>>: no entry for the uri; <<c>>: entry with originalContent c
  docOpen,           \* the editor holds the document of the uri
  docText,           \* document.getText()
  remoteContent,     \* the file's content on the server
  openPc,            \* per openFile call: "idle", "downloading", "returned"
  savePc,            \* per saveFile call: "idle", "uploading", "returned"
  saveContent,       \* per saveFile call: `content`
  saveResult,        \* per saveFile call: how it ended
  uploads,           \* POST requests sent
  lastSynced         \* <<c>>: c is what the last completed download served or the
                     \* last successful upload stored

syncVars == <<fileCache, docOpen, docText, remoteContent, openPc, savePc, saveContent,
              saveResult, uploads, lastSynced>>

\* ChatPanelManager.panels and showForProject
VARIABLES
  panels,            \* ChatPanelManager.panels: project id -> panel (0: no entry)
  panelCount,        \* webview panels created so far
  panelOf,           \* the project each created panel was created for
  disposed,          \* the panels that have been disposed
  listening,         \* the panels whose onDidDispose handler is registered
  showPc,            \* per showForProject call: "idle", "updating", "loading", "returned", "threw"
  showProject,       \* per call: its projectId
  showPanel,         \* per call: the panel it created (0: none)
  revealed           \* per call: the panel it revealed (0: none)

regVars == <<panels, panelCount, panelOf, disposed, listening, showPc, showProject,
             showPanel, revealed>>

\* what an action of one part leaves alone
notMon ==
  <<ctxVars, todoVars, apiVars, dlVars, panVars, sideVars, delVars, syncVars, regVars>>

notCtx ==
  <<monVars, todoVars, apiVars, dlVars, panVars, sideVars, delVars, syncVars, regVars>>

notTodo ==
  <<monVars, ctxVars, apiVars, dlVars, panVars, sideVars, delVars, syncVars, regVars>>

notApi ==
  <<monVars, ctxVars, todoVars, dlVars, panVars, sideVars, delVars, syncVars, regVars>>

notDl ==
  <<monVars, ctxVars, todoVars, apiVars, panVars, sideVars, delVars, syncVars, regVars>>

notPan ==
  <<monVars, ctxVars, todoVars, apiVars, dlVars, sideVars, delVars, syncVars, regVars>>

notSide ==
  <<monVars, ctxVars, todoVars, apiVars, dlVars, panVars, delVars, syncVars, regVars>>

notDel ==
  <<monVars, ctxVars, todoVars, apiVars, dlVars, panVars, sideVars, syncVars, regVars>>

notSync ==
  <<monVars, ctxVars, todoVars, apiVars, dlVars, panVars, sideVars, delVars, regVars>>

notReg ==
  <<monVars, ctxVars, todoVars, apiVars, dlVars, panVars, sideVars, delVars, syncVars>>

\* Largest artifact count downloadArtifacts returns.
MaxArtifacts == 2

\* The frames the server writes: `data: <payload>` followed by a blank line,
\* for progress frames with a blank after the colon and an event line before.
Frame(tok) == <<"D", tok, "NL", "NL">>

Frames ==
  {Frame(tok) : tok \in {"c", "k", "x", "j"}}
    \cup {<<"E", "NL", "D", "SP", "p", "NL", "NL">>}

\* Frames of a session that only answers with text: content frames with two
\* texts and without text, and the complete frame.
ContentFrames == {Frame(tok) : tok \in {"c", "d", "e", "k"}}

RECURSIVE StreamsFrom(_, _)
StreamsFrom(F, n) ==
  IF n = 0 THEN {<<>>}
  ELSE LET S == StreamsFrom(F, n - 1) IN S \cup {s \o f : s \in S, f \in F}

StreamsOf(n) == StreamsFrom(Frames, n)

Streams == StreamsOf(MaxFrames)

ContentStreams == StreamsFrom(ContentFrames, MaxFrames)

\* monitorSession is called: nothing read, decoded or reported yet
MonReset ==
  /\ pos = 0
  /\ buffer = <<>>
  /\ assistantResponse = <<>>
  /\ applied = <<>>
  /\ sinkLog = <<>>
  /\ pc = "connect"
  /\ cancelRequested = FALSE
  /\ readStarted = FALSE
  /\ stopRequests = 0
  /\ outcome = "Pending"
  /\ errorMessage = "none"
  /\ reported = FALSE
  /\ downloads = 0
  /\ cleanups = 0
  /\ eos = FALSE
  /\ appliedAtCancel = -1
  /\ cutInDelim = FALSE
  /\ entryCancelled = FALSE
  /\ outstanding = 0

MonInit ==
  /\ stream \in Streams
  /\ MonReset

ContentInit ==
  /\ stream \in ContentStreams
  /\ MonReset

\* The head of pump: the token check decides between the stop request and a read.
PumpIgnoresToken(cancel) == "reading"

PumpTop(cancel) == IF cancel THEN "stopping" ELSE "reading"

StillOutstanding(n) == n

\* `await reader.read()` is over: the read has settled
ReadSettled(n) == n - 1

\* every step taken from the read is its settling
ReadsLeft == IF pc = "reading" THEN ReadSettled(outstanding) ELSE outstanding

\* pump() is entered (first call or the tail call `return pump()`)
EnterPump ==
  /\ pc' = PumpTop(cancelRequested)
  /\ outstanding' = ReadsLeft + (IF pc' = "reading" THEN 1 ELSE 0)
  /\ stopRequests' = IF pc' = "stopping" THEN stopRequests + 1 ELSE stopRequests
  /\ readStarted' = (readStarted \/ pc' = "reading")
  /\ UNCHANGED <<outcome, errorMessage, reported, cancelRequested>>

\* monitorSession resolves: startAISession goes on to downloadArtifacts
MonitorReturns ==
  /\ outcome' = "Returned"
  /\ pc' = "download"
  /\ outstanding' = ReadsLeft
  /\ UNCHANGED <<errorMessage, reported, stopRequests, readStarted, cancelRequested>>

\* the catch clause of startAISession
Catch(msg, fromMonitor) ==
  /\ errorMessage' = msg
  /\ reported' = (msg # "User cancelled")
  /\ outcome' = IF ~fromMonitor THEN outcome
                ELSE IF msg = "User cancelled" THEN "Stopped" ELSE "Failed"
  /\ pc' = "done"
  /\ outstanding' = ReadsLeft
  /\ UNCHANGED cancelRequested

\* the SSE request is answered with a readable body; pump is called
ConnectOk ==
  /\ pc = "connect"
  /\ EnterPump
  /\ entryCancelled' = cancelRequested
  /\ UNCHANGED <<stream, pos, buffer, assistantResponse, applied, sinkLog,
                 downloads, cleanups, eos, appliedAtCancel, cutInDelim>>
  /\ UNCHANGED notMon

\* no API key, or the response is not ok / has no body
ConnectFail ==
  /\ pc = "connect"
  /\ \E msg \in {"Not authenticated", "Failed to connect to SSE stream"} :
       Catch(msg, TRUE)
  /\ UNCHANGED <<stream, pos, buffer, assistantResponse, applied, sinkLog,
                 readStarted, stopRequests, downloads, cleanups, eos, appliedAtCancel,
                 cutInDelim,
                 entryCancelled>>
  /\ UNCHANGED notMon

\* reader.read() resolves with a chunk of k tokens; the chunk is decoded and
\* applied, then pump returns (complete) or calls itself
ReadChunk ==
  /\ pc = "reading"
  /\ \E k \in 1..(Len(stream) - pos) :
       LET chunk == SubSeq(stream, pos + 1, pos + k)
           r == ProcessChunk(buffer, chunk,
                  [resp |-> assistantResponse, applied |-> applied,
                   sink |-> sinkLog, completed |-> FALSE])
       IN /\ pos' = pos + k
          /\ buffer' = r.buffer
          /\ assistantResponse' = r.st.resp
          /\ applied' = r.st.applied
          /\ sinkLog' = r.st.sink
          /\ cutInDelim' = (cutInDelim \/ (/\ buffer # <<>>
                                           /\ buffer[Len(buffer)] = "NL"
                                           /\ chunk[1] = "NL"))
          /\ IF r.st.completed THEN MonitorReturns ELSE EnterPump
  /\ UNCHANGED <<stream, downloads, cleanups, eos, appliedAtCancel,
                 entryCancelled>>
  /\ UNCHANGED notMon

ReadEndIgnored ==
  /\ pc = "reading"
  /\ eos' = TRUE
  /\ EnterPump
  /\ UNCHANGED <<stream, pos, buffer, assistantResponse, applied, sinkLog,
                 downloads, cleanups, appliedAtCancel, cutInDelim,
                 entryCancelled>>
  /\ UNCHANGED notMon

\* reader.read() resolves with done: pump returns
ReadEnd ==
  /\ pc = "reading"
  /\ eos' = TRUE
  /\ MonitorReturns
  /\ UNCHANGED <<stream, pos, buffer, assistantResponse, applied, sinkLog,
                 downloads, cleanups, appliedAtCancel, cutInDelim,
                 entryCancelled>>
  /\ UNCHANGED notMon

\* reader.read() rejects (connection failure)
ReadError ==
  /\ pc = "reading"
  /\ Catch("read failed", TRUE)
  /\ UNCHANGED <<stream, pos, buffer, assistantResponse, applied, sinkLog,
                 readStarted, stopRequests, downloads, cleanups, eos, appliedAtCancel,
                 cutInDelim,
                 entryCancelled>>
  /\ UNCHANGED notMon

\* the stop request is answered 2xx: pump throws 'User cancelled'
StopOk ==
  /\ pc = "stopping"
  /\ Catch("User cancelled", TRUE)
  /\ UNCHANGED <<stream, pos, buffer, assistantResponse, applied, sinkLog,
                 readStarted, stopRequests, downloads, cleanups, eos, appliedAtCancel,
                 cutInDelim,
                 entryCancelled>>
  /\ UNCHANGED notMon

\* the stop request fails: apiFetch throws, nothing in pump catches it
StopFail ==
  /\ pc = "stopping"
  /\ Catch("stop request failed", TRUE)
  /\ UNCHANGED <<stream, pos, buffer, assistantResponse, applied, sinkLog,
                 readStarted, stopRequests, downloads, cleanups, eos, appliedAtCancel,
                 cutInDelim,
                 entryCancelled>>
  /\ UNCHANGED notMon

\* downloadArtifacts returns its count
DownloadOk ==
  /\ pc = "download"
  /\ downloads' = downloads + 1
  /\ \E artifactCount \in 0..MaxArtifacts :
       pc' = IF artifactCount > 0 THEN "cleanup" ELSE "done"
  /\ UNCHANGED <<stream, pos, buffer, assistantResponse, applied, sinkLog,
                 cancelRequested, readStarted, stopRequests, outcome, errorMessage,
                 reported, cleanups, eos, appliedAtCancel, cutInDelim,
                 entryCancelled, outstanding>>
  /\ UNCHANGED notMon

\* downloadArtifacts throws (the artifact request or a write fails)
DownloadFail ==
  /\ pc = "download"
  /\ downloads' = downloads + 1
  /\ Catch("download failed", FALSE)
  /\ UNCHANGED <<stream, pos, buffer, assistantResponse, applied, sinkLog,
                 readStarted, stopRequests, cleanups, eos,
                 appliedAtCancel, cutInDelim,
                 entryCancelled>>
  /\ UNCHANGED notMon

\* cleanupEphemeralProject returns (it catches its own failures)
Cleanup ==
  /\ pc = "cleanup"
  /\ cleanups' = cleanups + 1
  /\ pc' = "done"
  /\ UNCHANGED <<stream, pos, buffer, assistantResponse, applied, sinkLog,
                 cancelRequested, readStarted, stopRequests, outcome, errorMessage,
                 reported, downloads, eos, appliedAtCancel, cutInDelim,
                 entryCancelled, outstanding>>
  /\ UNCHANGED notMon

\* the user presses Cancel on the progress notification
Cancel ==
  /\ pc # "done"
  /\ ~cancelRequested
  /\ cancelRequested' = TRUE
  /\ appliedAtCancel' = IF pc = "reading" THEN Len(applied) ELSE -1
  /\ UNCHANGED <<stream, pos, buffer, assistantResponse, applied, sinkLog, pc,
                 readStarted, stopRequests, outcome, errorMessage, reported,
                 downloads, cleanups, eos, cutInDelim,
                 entryCancelled, outstanding>>
  /\ UNCHANGED notMon

MonNext ==
  \/ ConnectOk
  \/ ConnectFail
  \/ ReadChunk
  \/ ReadEnd
  \/ ReadError
  \/ StopOk
  \/ StopFail
  \/ DownloadOk
  \/ DownloadFail
  \/ Cleanup
  \/ Cancel

MonIdle ==
  /\ stream = <<>>
  /\ pos = 0
  /\ buffer = <<>>
  /\ assistantResponse = <<>>
  /\ applied = <<>>
  /\ sinkLog = <<>>
  /\ pc = "done"
  /\ cancelRequested = FALSE
  /\ readStarted = FALSE
  /\ stopRequests = 0
  /\ outcome = "Pending"
  /\ errorMessage = "none"
  /\ reported = FALSE
  /\ downloads = 0
  /\ cleanups = 0
  /\ eos = FALSE
  /\ appliedAtCancel = -1
  /\ cutInDelim = FALSE
  /\ entryCancelled = FALSE
  /\ outstanding = 0

CtxInit ==
  /\ ephemeralProjectId = undefined
  /\ currentSessionId = undefined
  /\ remoteProjects = {}
  /\ sentCreate = {}
  /\ created = 0
  /\ dispatched = 0
  /\ rpc = [r \in Runs |-> "start"]
  /\ projectId = [r \in Runs |-> undefined]
  /\ sessionId = [r \in Runs |-> undefined]
  /\ nspc = "idle"
  /\ overlapped = {}
  /\ acquiredFrom = [r \in Runs |-> "none"]
  /\ cleanupResult = [r \in Runs |-> "none"]
  /\ runError = [r \in Runs |-> "none"]
  /\ reports = [r \in Runs |-> 0]
  /\ caught = [r \in Runs |-> "none"]
  /\ dispatchRequests = [r \in Runs |-> 0]
  /\ monitorCalls = [r \in Runs |-> 0]
  /\ downloadCalls = [r \in Runs |-> 0]
  /\ downloaded = [r \in Runs |-> "none"]

CtxIdle == CtxInit

\* what a run leaves alone between two of its own calls
ctxCalls == <<dispatchRequests, monitorCalls, downloadCalls, downloaded>>

\* the cleanup of this id has failed in some run
FailedCleanupOf(id) ==
  \E q \in Runs : cleanupResult[q] = "Failed to cleanup project" /\ projectId[q] = id

ctxCatch == <<runError, reports, caught>>

NeverStored(id) == FALSE

\* `if (!projectId)` is not taken: workspaceState holds an id
Stored(id) == id # undefined

\* getEphemeralProject up to its first await: the stored id is returned, or
\* the creation request is sent
Acquire(r) ==
  /\ rpc[r] = "start"
  /\ IF Stored(ephemeralProjectId)
     THEN /\ projectId' = [projectId EXCEPT ![r] = ephemeralProjectId]
          /\ acquiredFrom' = [acquiredFrom EXCEPT ![r] =
                                  IF FailedCleanupOf(ephemeralProjectId)
                                  THEN "stored after failed cleanup"
                                  ELSE "stored"]
          /\ rpc' = [rpc EXCEPT ![r] = "upload"]
          /\ UNCHANGED <<sentCreate, overlapped>>
     ELSE /\ rpc' = [rpc EXCEPT ![r] = "creating"]
          /\ sentCreate' = sentCreate \cup {r}
          /\ overlapped' =
               LET pending == {q \in Runs \ {r} : rpc[q] = "creating"}
               IN IF pending = {} THEN overlapped
                  ELSE overlapped \cup pending \cup {r}
          /\ UNCHANGED <<projectId, acquiredFrom>>
  /\ UNCHANGED <<ephemeralProjectId, currentSessionId, remoteProjects,
                 created, dispatched, sessionId, nspc>>
  /\ UNCHANGED <<ctxCalls, cleanupResult, ctxCatch>>
  /\ UNCHANGED notCtx

\* the creation request is answered: the new id is stored and returned
CreateOk(r) ==
  /\ rpc[r] = "creating"
  /\ LET id == created + 1
     IN /\ created' = id
        /\ remoteProjects' = remoteProjects \cup {id}
        /\ projectId' = [projectId EXCEPT ![r] = id]
        /\ ephemeralProjectId' = id
  /\ acquiredFrom' = [acquiredFrom EXCEPT ![r] = "created"]
  /\ rpc' = [rpc EXCEPT ![r] = "upload"]
  /\ UNCHANGED <<currentSessionId, sentCreate, dispatched, sessionId, nspc,
                 overlapped>>
  /\ UNCHANGED <<ctxCalls, cleanupResult, ctxCatch>>
  /\ UNCHANGED notCtx

AlwaysShown(message) == TRUE

\* `if (error.message !== 'User cancelled')`
ShowsError(message) == message # "User cancelled"

\* a run ends in the catch clause of startAISession; the error is shown
\* unless its message is 'User cancelled'
RunFails(r, at, message) ==
  /\ rpc[r] = at
  /\ rpc' = [rpc EXCEPT ![r] = "done"]
  /\ runError' = [runError EXCEPT ![r] = at]
  /\ caught' = [caught EXCEPT ![r] = message]
  /\ reports' = [reports EXCEPT ![r] = IF ShowsError(message) THEN @ + 1 ELSE @]
  /\ UNCHANGED <<ephemeralProjectId, currentSessionId, remoteProjects,
                 sentCreate, created, dispatched, projectId, sessionId, nspc,
                 overlapped>>
  /\ UNCHANGED <<ctxCalls, cleanupResult, acquiredFrom>>
  /\ UNCHANGED notCtx

\* the creation request fails: apiFetch throws, nothing is stored
CreateFail(r) == RunFails(r, "creating", "request failed")

\* uploadWorkspaceFiles returns; the dispatch request is sent
UploadOk(r) ==
  /\ rpc[r] = "upload"
  /\ rpc' = [rpc EXCEPT ![r] = "dispatch"]
  /\ dispatchRequests' = [dispatchRequests EXCEPT ![r] = @ + 1]
  /\ UNCHANGED <<ephemeralProjectId, currentSessionId, remoteProjects,
                 sentCreate, created, dispatched, projectId, sessionId, nspc,
                 overlapped, monitorCalls, downloadCalls, downloaded>>
  /\ UNCHANGED <<cleanupResult, acquiredFrom, ctxCatch>>
  /\ UNCHANGED notCtx

UploadFail(r) == RunFails(r, "upload", "request failed")

\* the dispatch request returns a session id, which is stored; monitorSession
\* is called
DispatchOk(r) ==
  /\ rpc[r] = "dispatch"
  /\ dispatched' = dispatched + 1
  /\ sessionId' = [sessionId EXCEPT ![r] = dispatched + 1]
  /\ currentSessionId' = dispatched + 1
  /\ monitorCalls' = [monitorCalls EXCEPT ![r] = @ + 1]
  /\ rpc' = [rpc EXCEPT ![r] = "monitor"]
  /\ UNCHANGED <<ephemeralProjectId, remoteProjects, sentCreate, created, projectId,
                 nspc, overlapped, dispatchRequests, downloadCalls, downloaded>>
  /\ UNCHANGED <<cleanupResult, acquiredFrom, ctxCatch>>
  /\ UNCHANGED notCtx

\* the failure of the dispatch request is dropped and the run goes on
DispatchFailIgnored(r) ==
  /\ rpc[r] = "dispatch"
  /\ runError' = [runError EXCEPT ![r] = "dispatch"]
  /\ monitorCalls' = [monitorCalls EXCEPT ![r] = @ + 1]
  /\ rpc' = [rpc EXCEPT ![r] = "monitor"]
  /\ UNCHANGED <<ephemeralProjectId, currentSessionId, remoteProjects,
                 sentCreate, created, dispatched, projectId, sessionId, nspc,
                 overlapped, reports, dispatchRequests, downloadCalls, downloaded>>
  /\ UNCHANGED <<cleanupResult, acquiredFrom, caught>>
  /\ UNCHANGED notCtx

\* the dispatch request fails (apiFetch throws), or its answer carries no
\* sessionId ('No session ID returned from server' is thrown)
DispatchFail(r) == RunFails(r, "dispatch", "request failed")

\* monitorSession resolves; downloadArtifacts is called
MonitorResolves(r) ==
  /\ rpc[r] = "monitor"
  /\ rpc' = [rpc EXCEPT ![r] = "download"]
  /\ downloadCalls' = [downloadCalls EXCEPT ![r] = @ + 1]
  /\ UNCHANGED <<ephemeralProjectId, currentSessionId, remoteProjects,
                 sentCreate, created, dispatched, projectId, sessionId, nspc,
                 overlapped, dispatchRequests, monitorCalls, downloaded>>
  /\ UNCHANGED <<cleanupResult, acquiredFrom, ctxCatch>>
  /\ UNCHANGED notCtx

\* monitorSession rejects ('User cancelled' or a failure)
MonitorRejects(r) ==
  \E message \in {"User cancelled", "request failed"} : RunFails(r, "monitor", message)

AlwaysCleanup(artifactCount) == TRUE

\* `if (artifactCount > 0)`
NeedsCleanup(artifactCount) == artifactCount > 0

\* downloadArtifacts returns its count; a positive count starts the cleanup
DownloadReturns(r) ==
  /\ rpc[r] = "download"
  /\ \E artifactCount \in 0..MaxArtifacts :
       /\ rpc' = [rpc EXCEPT ![r] = IF NeedsCleanup(artifactCount)
                                    THEN "cleaning" ELSE "done"]
       /\ downloaded' = [downloaded EXCEPT ![r] = IF artifactCount = 0
                                                  THEN "nothing" ELSE "artifacts"]
  /\ UNCHANGED <<ephemeralProjectId, currentSessionId, remoteProjects,
                 sentCreate, created, dispatched, projectId, sessionId, nspc,
                 overlapped, dispatchRequests, monitorCalls, downloadCalls>>
  /\ UNCHANGED <<cleanupResult, acquiredFrom, ctxCatch>>
  /\ UNCHANGED notCtx

DownloadThrows(r) == RunFails(r, "download", "request failed")

\* the cleanup request succeeds: the stored id is cleared
CleanupOk(r) ==
  /\ rpc[r] = "cleaning"
  /\ remoteProjects' = remoteProjects \ {projectId[r]}
  /\ ephemeralProjectId' = undefined
  /\ cleanupResult' = [cleanupResult EXCEPT ![r] = "Ephemeral project cleaned up"]
  /\ rpc' = [rpc EXCEPT ![r] = "done"]
  /\ UNCHANGED <<currentSessionId, sentCreate, created, dispatched, projectId,
                 sessionId, nspc, overlapped>>
  /\ UNCHANGED <<ctxCalls, acquiredFrom, ctxCatch>>
  /\ UNCHANGED notCtx

ClearedInCatch(id) == undefined

\* the catch clause of cleanupEphemeralProject does not touch workspaceState
KeptInCatch(id) == id

\* the cleanup request fails: cleanupEphemeralProject logs it and returns
CleanupFail(r) ==
  /\ rpc[r] = "cleaning"
  /\ ephemeralProjectId' = KeptInCatch(ephemeralProjectId)
  /\ cleanupResult' = [cleanupResult EXCEPT ![r] = "Failed to cleanup project"]
  /\ rpc' = [rpc EXCEPT ![r] = "done"]
  /\ UNCHANGED <<currentSessionId, remoteProjects, sentCreate, created, dispatched,
                 projectId, sessionId, nspc, overlapped>>
  /\ UNCHANGED <<ctxCalls, acquiredFrom, ctxCatch>>
  /\ UNCHANGED notCtx

\* newSessionCommand: first update
NewSessionClearProject ==
  /\ nspc = "idle"
  /\ ephemeralProjectId' = undefined
  /\ nspc' = "clearSession"
  /\ UNCHANGED <<currentSessionId, remoteProjects, sentCreate, created, dispatched,
                 rpc, projectId, sessionId, overlapped>>
  /\ UNCHANGED <<ctxCalls, cleanupResult, acquiredFrom, ctxCatch>>
  /\ UNCHANGED notCtx

NewSessionKeepsSession ==
  /\ nspc = "clearSession"
  /\ nspc' = "idle"
  /\ UNCHANGED <<ephemeralProjectId, currentSessionId, remoteProjects, sentCreate,
                 created, dispatched, rpc, projectId, sessionId, overlapped>>
  /\ UNCHANGED <<ctxCalls, cleanupResult, acquiredFrom, ctxCatch>>
  /\ UNCHANGED notCtx

\* newSessionCommand: second update
NewSessionClearSession ==
  /\ nspc = "clearSession"
  /\ currentSessionId' = undefined
  /\ nspc' = "idle"
  /\ UNCHANGED <<ephemeralProjectId, remoteProjects, sentCreate, created, dispatched,
                 rpc, projectId, sessionId, overlapped>>
  /\ UNCHANGED <<ctxCalls, cleanupResult, acquiredFrom, ctxCatch>>
  /\ UNCHANGED notCtx

CtxNext ==
  \/ \E r \in Runs : Acquire(r)
  \/ \E r \in Runs : CreateOk(r)
  \/ \E r \in Runs : CreateFail(r)
  \/ \E r \in Runs : UploadOk(r)
  \/ \E r \in Runs : UploadFail(r)
  \/ \E r \in Runs : DispatchOk(r)
  \/ \E r \in Runs : DispatchFail(r)
  \/ \E r \in Runs : MonitorResolves(r)
  \/ \E r \in Runs : MonitorRejects(r)
  \/ \E r \in Runs : DownloadReturns(r)
  \/ \E r \in Runs : DownloadThrows(r)
  \/ \E r \in Runs : CleanupOk(r)
  \/ \E r \in Runs : CleanupFail(r)
  \/ NewSessionClearProject
  \/ NewSessionClearSession

\* ------------------------------------------ the todo lists of the webviews

\* Longest item list of a todo_update event.
MaxTodos == 2

\* the items a todo_update can carry
TodoItems ==
  { [content |-> "a", status |-> "pending"],
    [content |-> "b", status |-> "completed"],
    [content |-> "a", status |-> "in_progress"],
    [content |-> "b", status |-> "cancelled"] }

RECURSIVE ListsOf(_, _)
ListsOf(S, n) ==
  IF n = 0 THEN {<<>>}
  ELSE LET L == ListsOf(S, n - 1) IN L \cup {Append(l, x) : l \in L, x \in S}

TodoLists == ListsOf(TodoItems, MaxTodos)

\* the element updateTodos builds for one item
RenderTodo(todo) ==
  [icon |-> CASE todo.status = "completed" -> "done"
              [] todo.status = "in_progress" -> "hourglass"
              [] todo.status = "cancelled" -> "cross"
              [] OTHER -> "box",
   text |-> todo.content,
   faded |-> (todo.status = "completed")]

RenderTodos(todos) == [i \in 1..Len(todos) |-> RenderTodo(todos[i])]

TodoInit ==
  /\ currentTodos = <<>>
  /\ panelTodos = <<>>
  /\ todoList = <<>>
  /\ todosHidden = TRUE
  /\ panelLast = <<>>
  /\ sidebarLast = <<>>

TodoIdle == TodoInit

\* chat panel webview: an sse message of type todo_update with a todos array
\* (one without todos is not acted on)
PanelTodoUpdate ==
  /\ \E todos \in TodoLists :
       /\ currentTodos' = todos
       /\ panelTodos' = IF Len(todos) = 0 THEN <<>> ELSE RenderTodos(todos)
       /\ panelLast' = todos
  /\ UNCHANGED <<todoList, todosHidden, sidebarLast>>
  /\ UNCHANGED notTodo

\* sidebar webview: an sse message of type todo_update with a todos array
SidebarTodoUpdate ==
  /\ \E todos \in TodoLists :
       /\ IF Len(todos) = 0
          THEN UNCHANGED <<todoList, todosHidden>>
          ELSE /\ todoList' = RenderTodos(todos)
               /\ todosHidden' = FALSE
       /\ sidebarLast' = todos
  /\ UNCHANGED <<currentTodos, panelTodos, panelLast>>
  /\ UNCHANGED notTodo

TodoNext ==
  \/ PanelTodoUpdate
  \/ SidebarTodoUpdate

\* C14: in both webviews the displayed todo list is the item list of the last
\* todo_update received, also when that list is empty.
C14_LastTodoUpdateWins ==
  /\ currentTodos = panelLast
  /\ panelTodos = RenderTodos(panelLast)
  /\ todoList = RenderTodos(sidebarLast)

\* ---------------------------------------------------- apiFetch and the API key

\* Number of apiFetch calls.
NumCalls == 2

Calls == 1..NumCalls

\* Longest response body, in words.
MaxWords == 1

\* the words of a response body, in the spelling the server sends
Words == {"Expired", "INVALID", "Unauthorized", "Access denied", "forbidden"}

Bodies == ListsOf(Words, MaxWords)

Statuses == {200, 401, 403, 500}

\* String.prototype.toLowerCase()
SameCase(word) == word

toLowerCase(word) ==
  CASE word = "Expired" -> "expired"
    [] word = "INVALID" -> "invalid"
    [] word = "Unauthorized" -> "unauthorized"
    [] word = "Access denied" -> "access denied"
    [] OTHER -> word

\* text.toLowerCase().includes(pattern)
includes(text, pattern) == \E i \in 1..Len(text) : toLowerCase(text[i]) = pattern

\* the test that makes apiFetch delete the stored key
AnyAuthStatus(status, text) == status \in {401, 403}

IsAuthFailure(status, text) ==
  /\ status \in {401, 403}
  /\ \/ includes(text, "expired")
     \/ includes(text, "invalid")
     \/ includes(text, "unauthorized")
     \/ includes(text, "access denied")

\* ensureApiKey: whether the user is asked for a key
NeverPrompt(existing) == FALSE

NeedsPrompt(existing) == existing = "none"

NoResponse == [call |-> 0, status |-> 0, text |-> <<>>]

ApiInit ==
  /\ secret \in {"none", "key"}
  /\ apc = [c \in Calls |-> "idle"]
  /\ apiResult = [c \in Calls |-> "none"]
  /\ sentRequests = [c \in Calls |-> 0]
  /\ promptKind = [c \in Calls |-> "none"]
  /\ lastResponse = NoResponse
  /\ clearedBy = 0

ApiIdle ==
  /\ secret = "none"
  /\ apc = [c \in Calls |-> "idle"]
  /\ apiResult = [c \in Calls |-> "none"]
  /\ sentRequests = [c \in Calls |-> 0]
  /\ promptKind = [c \in Calls |-> "none"]
  /\ lastResponse = NoResponse
  /\ clearedBy = 0

\* apiFetch is called: ensureApiKey finds the stored key and the request is
\* sent, or it opens the setup page and the input box
ApiStart(c) ==
  /\ apc[c] = "idle"
  /\ IF NeedsPrompt(secret)
     THEN /\ apc' = [apc EXCEPT ![c] = "prompt"]
          /\ promptKind' = [promptKind EXCEPT
                              ![c] = IF clearedBy # 0 THEN "afterClear" ELSE "noKey"]
          /\ UNCHANGED sentRequests
     ELSE /\ apc' = [apc EXCEPT ![c] = "fetch"]
          /\ sentRequests' = [sentRequests EXCEPT ![c] = @ + 1]
          /\ UNCHANGED promptKind
  /\ UNCHANGED <<secret, apiResult, lastResponse, clearedBy>>
  /\ UNCHANGED notApi

\* the user pastes a key: it is stored and the request is sent with it
PromptAnswered(c) ==
  /\ apc[c] = "prompt"
  /\ secret' = "key"
  /\ clearedBy' = 0
  /\ apc' = [apc EXCEPT ![c] = "fetch"]
  /\ sentRequests' = [sentRequests EXCEPT ![c] = @ + 1]
  /\ UNCHANGED <<apiResult, promptKind, lastResponse>>
  /\ UNCHANGED notApi

\* the user dismisses the input box: apiFetch throws 'Not authenticated'
PromptDismissed(c) ==
  /\ apc[c] = "prompt"
  /\ apc' = [apc EXCEPT ![c] = "done"]
  /\ apiResult' = [apiResult EXCEPT ![c] = "Not authenticated"]
  /\ UNCHANGED <<secret, sentRequests, promptKind, lastResponse, clearedBy>>
  /\ UNCHANGED notApi

\* the response arrives: returned if ok, else the key is deleted on an
\* authentication failure, and the call throws
Respond(c) ==
  /\ apc[c] = "fetch"
  /\ \E status \in Statuses, text \in Bodies :
       /\ lastResponse' = [call |-> c, status |-> status, text |-> text]
       /\ IF status = 200
          THEN /\ apiResult' = [apiResult EXCEPT ![c] = "ok"]
               /\ UNCHANGED <<secret, clearedBy>>
          ELSE IF IsAuthFailure(status, text)
          THEN /\ secret' = "none"
               /\ clearedBy' = c
               /\ apiResult' = [apiResult EXCEPT ![c] = "Authentication failed"]
          ELSE /\ apiResult' = [apiResult EXCEPT ![c] = "status and text"]
               /\ UNCHANGED <<secret, clearedBy>>
  /\ apc' = [apc EXCEPT ![c] = "done"]
  /\ UNCHANGED <<sentRequests, promptKind>>
  /\ UNCHANGED notApi

ApiNext ==
  \/ \E c \in Calls : ApiStart(c)
  \/ \E c \in Calls : PromptAnswered(c)
  \/ \E c \in Calls : PromptDismissed(c)
  \/ \E c \in Calls : Respond(c)

\* ------------------------------------------------------ downloadArtifacts

\* Number of downloadArtifacts calls, one after the other.
NumDownloads == 2

\* artifact.path as the segments between its slashes
ArtifactPaths == { <<"output", "a.h">>, <<"a.h">>, <<"output", "sub", "b.bin">> }

\* the artifacts the server can list
ArtifactItems ==
  { [path |-> <<"output", "a.h">>, content |-> "x"],
    [path |-> <<"output", "a.h">>, content |-> "y"],
    [path |-> <<"a.h">>, content |-> "y"],
    [path |-> <<"output", "sub", "b.bin">>, content |-> "x"] }

ArtifactLists == ListsOf(ArtifactItems, MaxArtifacts)

\* the answer without an artifacts field
NoArtifacts == [listed |-> FALSE, artifacts |-> <<>>]

\* the answers to the artifact request: data.artifacts is a list or undefined
Answers == {NoArtifacts} \cup {[listed |-> TRUE, artifacts |-> l] : l \in ArtifactLists}

KeepPath(path) == path

\* artifact.path.replace(/^output\//, '')
StripOutputPrefix(path) ==
  IF Len(path) >= 2 /\ path[1] = "output" THEN Tail(path) ELSE path

\* vscode.Uri.joinPath(workspaceFolders[0].uri, 'output')
outputDir == <<"output">>

\* vscode.Uri.joinPath(outputDir, ...)
filePath(artifact) == outputDir \o StripOutputPrefix(artifact.path)

\* vscode.Uri.joinPath(filePath, '..')
dirPath(artifact) == SubSeq(filePath(artifact), 1, Len(filePath(artifact)) - 1)

\* the directories createDirectory makes sure of: the path and its ancestors
WithAncestors(dir) == { SubSeq(dir, 1, n) : n \in 1..Len(dir) }

\* Buffer.from(content, 'utf-8')
BufferFrom(content) == <<content>>

AppendTo(disk, path, bytes) ==
  [p \in DOMAIN disk \cup {path} |->
     IF p = path
     THEN (IF path \in DOMAIN disk THEN disk[path] \o bytes ELSE bytes)
     ELSE disk[p]]

\* workspace.fs.writeFile: the file holds the bytes, whatever it held
writeFile(disk, path, bytes) ==
  [p \in DOMAIN disk \cup {path} |-> IF p = path THEN bytes ELSE disk[p]]

OnlyMissing(answer) == ~answer.listed

\* `!data.artifacts || data.artifacts.length === 0`
NothingToDownload(answer) ==
  \/ ~answer.listed
  \/ Len(answer.artifacts) = 0

NoFiles == [p \in {} |-> <<>>]

NoPrevious ==
  [data |-> NoArtifacts, ended |-> "none", files |-> NoFiles,
   directories |-> {}, result |-> -1]

DlReset ==
  /\ files = NoFiles
  /\ directories = {}
  /\ dlpc = "idle"
  /\ data = NoArtifacts
  /\ index = 0
  /\ result = -1
  /\ fsCalls = 0
  /\ writes = 0
  /\ failedIndex = 0
  /\ dlCalls = 0
  /\ previous = NoPrevious

DlInit ==
  /\ workspaceFolders \in BOOLEAN
  /\ DlReset

DlIdle ==
  /\ workspaceFolders = FALSE
  /\ DlReset

\* downloadArtifacts is called: without a workspace folder it returns 0,
\* otherwise it requests the artifact list
DownloadStart ==
  /\ dlpc \in {"idle", "returned", "threw"}
  /\ dlCalls < NumDownloads
  /\ dlCalls' = dlCalls + 1
  /\ previous' = IF dlpc = "idle" THEN previous
                 ELSE [data |-> data, ended |-> dlpc, files |-> files,
                       directories |-> directories, result |-> result]
  /\ data' = NoArtifacts
  /\ index' = 0
  /\ fsCalls' = 0
  /\ writes' = 0
  /\ failedIndex' = 0
  /\ IF workspaceFolders
     THEN dlpc' = "fetching" /\ result' = -1
     ELSE dlpc' = "returned" /\ result' = 0
  /\ UNCHANGED <<workspaceFolders, files, directories>>
  /\ UNCHANGED notDl

\* the artifact request is answered: nothing to download, or the loop is due
FetchOk ==
  /\ dlpc = "fetching"
  /\ \E answer \in Answers :
       /\ data' = answer
       /\ IF NothingToDownload(answer)
          THEN dlpc' = "returned" /\ result' = 0
          ELSE dlpc' = "mkdir" /\ result' = result
  /\ UNCHANGED <<workspaceFolders, files, directories, index, fsCalls, writes,
                 failedIndex, dlCalls, previous>>
  /\ UNCHANGED notDl

\* the artifact request fails: apiFetch throws
FetchFail ==
  /\ dlpc = "fetching"
  /\ dlpc' = "threw"
  /\ UNCHANGED <<workspaceFolders, files, directories, data, index, result,
                 fsCalls, writes, failedIndex, dlCalls, previous>>
  /\ UNCHANGED notDl

\* createDirectory(outputDir), then the loop is entered; over an empty list
\* it has nothing to do
CreateOutputDir ==
  /\ dlpc = "mkdir"
  /\ fsCalls' = fsCalls + 1
  /\ directories' = directories \cup WithAncestors(outputDir)
  /\ IF Len(data.artifacts) = 0
     THEN dlpc' = "returned" /\ result' = 0 /\ index' = index
     ELSE dlpc' = "loop" /\ result' = result /\ index' = 1
  /\ UNCHANGED <<workspaceFolders, files, data, writes, failedIndex,
                 dlCalls, previous>>
  /\ UNCHANGED notDl

\* createDirectory(outputDir) throws
CreateOutputDirFail ==
  /\ dlpc = "mkdir"
  /\ fsCalls' = fsCalls + 1
  /\ dlpc' = "threw"
  /\ UNCHANGED <<workspaceFolders, files, directories, data, index, result,
                 writes, failedIndex, dlCalls, previous>>
  /\ UNCHANGED notDl

\* one pass of the for-loop: createDirectory(dirPath), writeFile(filePath);
\* after the last artifact the length of the list is returned
WriteArtifact ==
  /\ dlpc = "loop"
  /\ LET artifact == data.artifacts[index]
     IN /\ directories' = directories \cup WithAncestors(dirPath(artifact))
        /\ files' = writeFile(files, filePath(artifact), BufferFrom(artifact.content))
  /\ fsCalls' = fsCalls + 2
  /\ writes' = writes + 1
  /\ IF index = Len(data.artifacts)
     THEN dlpc' = "returned" /\ result' = Len(data.artifacts) /\ index' = index
     ELSE dlpc' = "loop" /\ result' = result /\ index' = index + 1
  /\ UNCHANGED <<workspaceFolders, data, failedIndex, dlCalls, previous>>
  /\ UNCHANGED notDl

\* createDirectory(dirPath) or writeFile throws: nothing in downloadArtifacts
\* catches it, the call ends
WriteArtifactFail ==
  /\ dlpc = "loop"
  /\ \E thrower \in {"createDirectory", "writeFile"} :
       LET artifact == data.artifacts[index]
       IN IF thrower = "createDirectory"
          THEN /\ fsCalls' = fsCalls + 1
               /\ directories' = directories
          ELSE /\ fsCalls' = fsCalls + 2
               /\ directories' = directories \cup WithAncestors(dirPath(artifact))
  /\ failedIndex' = index
  /\ dlpc' = "threw"
  /\ UNCHANGED <<workspaceFolders, files, data, index, result, writes,
                 dlCalls, previous>>
  /\ UNCHANGED notDl

DlNext ==
  \/ DownloadStart
  \/ FetchOk
  \/ FetchFail
  \/ CreateOutputDir
  \/ CreateOutputDirFail
  \/ WriteArtifact
  \/ WriteArtifactFail

\* ---------------------------------------------- ChatPanelManager.streamSSE

PanReset ==
  /\ panelPos = 0
  /\ panelBuffer = <<>>
  /\ panelParts = <<>>
  /\ panelPosted = <<>>
  /\ panelDownloads = 0
  /\ panelDownloadFailed = FALSE
  /\ panelReadAfterComplete = FALSE
  /\ panelErrors = 0

\* handleSendMessage has the session id and calls streamSSE
PanInit ==
  /\ panelStream \in Streams
  /\ panelPc = "connect"
  /\ PanReset

PanIdle ==
  /\ panelStream = <<>>
  /\ panelPc = "returned"
  /\ PanReset

\* The for-loop of streamSSE's pump from the part it has come to: every part
\* that parses is posted; at a complete frame the loop is suspended in
\* downloadArtifacts, with the parts after it still to come.
RECURSIVE PanelLoop(_, _)
PanelLoop(parts, posted) ==
  IF parts = <<>> THEN [posted |-> posted, rest |-> <<>>, atComplete |-> FALSE]
  ELSE LET parsed == JsonParse(ParseFrame(Head(parts)).data)
       IN IF ~parsed.ok THEN PanelLoop(Tail(parts), posted)
          ELSE IF parsed.type = "complete"
               THEN [posted |-> Append(posted, parsed.type), rest |-> Tail(parts),
                     atComplete |-> TRUE]
          ELSE PanelLoop(Tail(parts), Append(posted, parsed.type))

\* the loop runs from the given parts: it is suspended at a complete frame,
\* or it runs out and pump calls itself, which starts the next read
PanelRunLoop(parts) ==
  LET r == PanelLoop(parts, panelPosted)
  IN /\ panelPosted' = r.posted
     /\ panelParts' = r.rest
     /\ IF r.atComplete
        THEN /\ panelPc' = "downloading"
             /\ panelDownloads' = panelDownloads + 1
             /\ UNCHANGED panelReadAfterComplete
        ELSE /\ panelPc' = "reading"
             /\ panelReadAfterComplete' =
                  (panelReadAfterComplete \/ \E i \in 1..Len(r.posted) :
                                                 r.posted[i] = "complete")
             /\ UNCHANGED panelDownloads

\* the key is stored and the stream request is answered with a body
PanelConnectOk ==
  /\ panelPc = "connect"
  /\ panelPc' = "reading"
  /\ UNCHANGED <<panelStream, panelPos, panelBuffer, panelParts, panelPosted,
                 panelDownloads, panelDownloadFailed, panelReadAfterComplete,
                 panelErrors>>
  /\ UNCHANGED notPan

\* no key, or the answer is not ok or has no body: streamSSE returns
PanelConnectRefused ==
  /\ panelPc = "connect"
  /\ panelPc' = "returned"
  /\ UNCHANGED <<panelStream, panelPos, panelBuffer, panelParts, panelPosted,
                 panelDownloads, panelDownloadFailed, panelReadAfterComplete,
                 panelErrors>>
  /\ UNCHANGED notPan

\* reader.read() resolves with a chunk of k tokens
PanelReadChunk ==
  /\ panelPc = "reading"
  /\ \E k \in 1..(Len(panelStream) - panelPos) :
       LET chunk == SubSeq(panelStream, panelPos + 1, panelPos + k)
           parts == SplitFrames(panelBuffer \o chunk)
       IN /\ panelPos' = panelPos + k
          /\ panelBuffer' = Leftover(parts)
          /\ PanelRunLoop(SubSeq(parts, 1, Len(parts) - 1))
  /\ UNCHANGED <<panelStream, panelDownloadFailed, panelErrors>>
  /\ UNCHANGED notPan

\* reader.read() resolves with done: pump returns
PanelReadEnd ==
  /\ panelPc = "reading"
  /\ panelPos = Len(panelStream)
  /\ panelPc' = "returned"
  /\ UNCHANGED <<panelStream, panelPos, panelBuffer, panelParts, panelPosted,
                 panelDownloads, panelDownloadFailed, panelReadAfterComplete,
                 panelErrors>>
  /\ UNCHANGED notPan

\* reader.read() rejects: the rejection reaches the catch clause of
\* handleSendMessage
PanelReadError ==
  /\ panelPc = "reading"
  /\ panelPc' = "failed"
  /\ panelErrors' = panelErrors + 1
  /\ UNCHANGED <<panelStream, panelPos, panelBuffer, panelParts, panelPosted,
                 panelDownloads, panelDownloadFailed, panelReadAfterComplete>>
  /\ UNCHANGED notPan

\* downloadArtifacts returns: pump returns
PanelDownloadOk ==
  /\ panelPc = "downloading"
  /\ panelPc' = "returned"
  /\ UNCHANGED <<panelStream, panelPos, panelBuffer, panelParts, panelPosted,
                 panelDownloads, panelDownloadFailed, panelReadAfterComplete,
                 panelErrors>>
  /\ UNCHANGED notPan

\* downloadArtifacts throws inside the try block: the catch clause takes it
\* and the for-loop goes on with the next part
PanelDownloadFail ==
  /\ panelPc = "downloading"
  /\ panelDownloadFailed' = TRUE
  /\ PanelRunLoop(panelParts)
  /\ UNCHANGED <<panelStream, panelPos, panelBuffer, panelErrors>>
  /\ UNCHANGED notPan

PanNext ==
  \/ PanelConnectOk
  \/ PanelConnectRefused
  \/ PanelReadChunk
  \/ PanelReadEnd
  \/ PanelReadError
  \/ PanelDownloadOk
  \/ PanelDownloadFail

\* ------------------------------------------- ChatViewProvider.streamSse

SideReset ==
  /\ sidePos = 0
  /\ sideBuffer = <<>>
  /\ sidePosted = <<>>
  /\ sideReads = 0
  /\ sideReadAfterTerminal = FALSE

\* the 'send' handler has the session id and calls streamSse
SideInit ==
  /\ sideStream \in Streams
  /\ sidePc = "connect"
  /\ SideReset

SideIdle ==
  /\ sideStream = <<>>
  /\ sidePc = "returned"
  /\ SideReset

\* the for-loop of streamSse's pump: every part whose data parses is posted
RECURSIVE SideLoop(_, _)
SideLoop(parts, posted) ==
  IF parts = <<>> THEN posted
  ELSE LET parsed == JsonParse(ParseFrame(Head(parts)).data)
       IN SideLoop(Tail(parts),
                   IF parsed.ok THEN Append(posted, parsed.type) ELSE posted)

\* pump is entered (`await pump()` or `return pump()`): reader.read() is called
SidePump(posted) ==
  /\ sidePc' = "reading"
  /\ sideReads' = sideReads + 1
  /\ sideReadAfterTerminal' =
       (sideReadAfterTerminal
          \/ \E i \in 1..Len(posted) : posted[i] \in {"complete", "error"})

\* the key is stored and the stream request is answered with a body
SideConnectOk ==
  /\ sidePc = "connect"
  /\ SidePump(sidePosted)
  /\ UNCHANGED <<sideStream, sidePos, sideBuffer, sidePosted>>
  /\ UNCHANGED notSide

\* no key, or the answer is not ok or has no body: streamSse returns
SideConnectRefused ==
  /\ sidePc = "connect"
  /\ sidePc' = "returned"
  /\ UNCHANGED <<sideStream, sidePos, sideBuffer, sidePosted, sideReads,
                 sideReadAfterTerminal>>
  /\ UNCHANGED notSide

\* reader.read() resolves with a chunk of k tokens: its complete parts are
\* posted and pump calls itself
SideReadChunk ==
  /\ sidePc = "reading"
  /\ \E k \in 1..(Len(sideStream) - sidePos) :
       LET chunk == SubSeq(sideStream, sidePos + 1, sidePos + k)
           parts == SplitFrames(sideBuffer \o chunk)
           posted == SideLoop(Popped(parts), sidePosted)
       IN /\ sidePos' = sidePos + k
          /\ sideBuffer' = Leftover(parts)
          /\ sidePosted' = posted
          /\ SidePump(posted)
  /\ UNCHANGED sideStream
  /\ UNCHANGED notSide

\* reader.read() resolves with done: pump returns
SideReadEnd ==
  /\ sidePc = "reading"
  /\ sidePos = Len(sideStream)
  /\ sidePc' = "returned"
  /\ UNCHANGED <<sideStream, sidePos, sideBuffer, sidePosted, sideReads,
                 sideReadAfterTerminal>>
  /\ UNCHANGED notSide

\* reader.read() rejects: streamSse rejects
SideReadError ==
  /\ sidePc = "reading"
  /\ sidePc' = "failed"
  /\ UNCHANGED <<sideStream, sidePos, sideBuffer, sidePosted, sideReads,
                 sideReadAfterTerminal>>
  /\ UNCHANGED notSide

SideNext ==
  \/ SideConnectOk
  \/ SideConnectRefused
  \/ SideReadChunk
  \/ SideReadEnd
  \/ SideReadError

\* ------------------------------------------ the command reflexible.deleteFile

\* Largest number of tree items selected for one command.
MaxSelected == 3

\* the selections: for each selected item whether it carries a file with an id
Selections == UNION {[1..n -> BOOLEAN] : n \in 1..MaxSelected}

\* `items.map(item => item.project).filter(f => f && f.id)`, as positions
RECURSIVE KeptFrom(_, _)
KeptFrom(items, i) ==
  IF i > Len(items) THEN <<>>
  ELSE (IF items[i] THEN <<i>> ELSE <<>>) \o KeptFrom(items, i + 1)

DelReset ==
  /\ delFiles = <<>>
  /\ delIndex = 0
  /\ successCount = 0
  /\ errorCount = 0
  /\ attempts = [i \in 1..MaxSelected |-> 0]
  /\ delLog = <<>>
  /\ delShown = {}

DelInit ==
  /\ activeProject \in BOOLEAN
  /\ selected \in Selections
  /\ delPc = "start"
  /\ DelReset

DelIdle ==
  /\ activeProject = FALSE
  /\ selected = <<>>
  /\ delPc = "returned"
  /\ DelReset

\* the handler up to the confirmation dialog
DeleteCommand ==
  /\ delPc = "start"
  /\ IF ~activeProject
     THEN /\ delShown' = {"No active project"}
          /\ delPc' = "returned"
          /\ UNCHANGED delFiles
     ELSE LET kept == KeptFrom(selected, 1)
          IN /\ delFiles' = kept
             /\ delPc' = IF Len(kept) = 0 THEN "returned" ELSE "confirm"
             /\ UNCHANGED delShown
  /\ UNCHANGED <<activeProject, selected, delIndex, successCount, errorCount,
                 attempts, delLog>>
  /\ UNCHANGED notDel

\* the user presses Delete
ConfirmDelete ==
  /\ delPc = "confirm"
  /\ delPc' = "loop"
  /\ UNCHANGED <<activeProject, selected, delFiles, delIndex, successCount,
                 errorCount, attempts, delLog, delShown>>
  /\ UNCHANGED notDel

\* the user closes the dialog
DismissDelete ==
  /\ delPc = "confirm"
  /\ delPc' = "returned"
  /\ UNCHANGED <<activeProject, selected, delFiles, delIndex, successCount,
                 errorCount, attempts, delLog, delShown>>
  /\ UNCHANGED notDel

BreakAfterCatch(i, n) == n

\* the catch clause is the end of the loop body: the for-loop goes on
AfterCatch(i, n) == i + 1

\* the loop goes on with the file at index i; past the last one the messages
\* are shown and the tree is refreshed
LoopFrom(i) ==
  /\ delIndex' = i
  /\ IF i < Len(delFiles)
     THEN /\ delPc' = "loop"
          /\ UNCHANGED delShown
     ELSE /\ delPc' = "done"
          /\ delShown' = (IF successCount' > 0 THEN {"Deleted"} ELSE {})
                            \cup (IF errorCount' > 0 THEN {"Failed to delete"} ELSE {})

\* the DELETE request of the current file succeeds
DeleteOk ==
  /\ delPc = "loop"
  /\ LET file == delFiles[delIndex + 1]
     IN /\ attempts' = [attempts EXCEPT ![file] = @ + 1]
        /\ delLog' = Append(delLog, <<file, "deleted">>)
  /\ successCount' = successCount + 1
  /\ UNCHANGED errorCount
  /\ LoopFrom(delIndex + 1)
  /\ UNCHANGED <<activeProject, selected, delFiles>>
  /\ UNCHANGED notDel

\* the DELETE request of the current file fails: apiFetch throws
DeleteFail ==
  /\ delPc = "loop"
  /\ LET file == delFiles[delIndex + 1]
     IN /\ attempts' = [attempts EXCEPT ![file] = @ + 1]
        /\ delLog' = Append(delLog, <<file, "failed">>)
  /\ errorCount' = errorCount + 1
  /\ UNCHANGED successCount
  /\ LoopFrom(AfterCatch(delIndex, Len(delFiles)))
  /\ UNCHANGED <<activeProject, selected, delFiles>>
  /\ UNCHANGED notDel

DelNext ==
  \/ DeleteCommand
  \/ ConfirmDelete
  \/ DismissDelete
  \/ DeleteOk
  \/ DeleteFail

\* -------------------------------------------- file-sync: openFile, saveFile

\* Largest text: the texts of the file are 0..NumTexts.
NumTexts == 1

Texts == 0..NumTexts

\* Number of openFile calls and of saveFile calls.
NumOpens == 2

NumSaves == 2

Opens == 1..NumOpens

Saves == 1..NumSaves

SyncReset ==
  /\ fileCache = <<>>
  /\ docOpen = FALSE
  /\ docText = 0
  /\ remoteContent = 0
  /\ saveContent = [c \in Saves |-> 0]
  /\ saveResult = [c \in Saves |-> "none"]
  /\ uploads = 0
  /\ lastSynced = <<>>

SyncInit ==
  /\ openPc = [o \in Opens |-> "idle"]
  /\ savePc = [c \in Saves |-> "idle"]
  /\ SyncReset

SyncIdle ==
  /\ openPc = [o \in Opens |-> "returned"]
  /\ savePc = [c \in Saves |-> "returned"]
  /\ SyncReset

\* openFile sends the download request
OpenStart(o) ==
  /\ openPc[o] = "idle"
  /\ openPc' = [openPc EXCEPT ![o] = "downloading"]
  /\ UNCHANGED <<fileCache, docOpen, docText, remoteContent, savePc, saveContent,
                 saveResult, uploads, lastSynced>>
  /\ UNCHANGED notSync

\* the download is answered with the file's content: the cache entry is set
\* and the document is shown (a document that is open keeps its text)
OpenDownloadOk(o) ==
  /\ openPc[o] = "downloading"
  /\ LET content == remoteContent
     IN /\ fileCache' = <<content>>
        /\ lastSynced' = <<content>>
        /\ docText' = IF docOpen THEN docText ELSE content
  /\ docOpen' = TRUE
  /\ openPc' = [openPc EXCEPT ![o] = "returned"]
  /\ UNCHANGED <<remoteContent, savePc, saveContent, saveResult, uploads>>
  /\ UNCHANGED notSync

\* the download fails: the catch clause of openFile reports it
OpenDownloadFail(o) ==
  /\ openPc[o] = "downloading"
  /\ openPc' = [openPc EXCEPT ![o] = "returned"]
  /\ UNCHANGED <<fileCache, docOpen, docText, remoteContent, savePc, saveContent,
                 saveResult, uploads, lastSynced>>
  /\ UNCHANGED notSync

\* the user edits the document
EditDocument ==
  /\ docOpen
  /\ \E text \in Texts \ {docText} : docText' = text
  /\ UNCHANGED <<fileCache, docOpen, remoteContent, openPc, savePc, saveContent,
                 saveResult, uploads, lastSynced>>
  /\ UNCHANGED notSync

\* the session running on the server rewrites the file
RemoteWrite ==
  /\ \E text \in Texts \ {remoteContent} : remoteContent' = text
  /\ UNCHANGED <<fileCache, docOpen, docText, openPc, savePc, saveContent,
                 saveResult, uploads, lastSynced>>
  /\ UNCHANGED notSync

AlwaysChanged(content, originalContent) == TRUE

\* `if (content === cached.originalContent) return` is not taken
Changed(content, originalContent) == content # originalContent

\* saveFile up to its await: no cache entry or an unchanged text end it, a
\* changed text is sent
SaveStart(c) ==
  /\ savePc[c] = "idle"
  /\ IF fileCache = <<>>
     THEN /\ saveResult' = [saveResult EXCEPT ![c] = "File not in cache, cannot save"]
          /\ savePc' = [savePc EXCEPT ![c] = "returned"]
          /\ UNCHANGED <<saveContent, uploads>>
     ELSE IF ~Changed(docText, fileCache[1])
     THEN /\ saveResult' = [saveResult EXCEPT ![c] = "unchanged"]
          /\ savePc' = [savePc EXCEPT ![c] = "returned"]
          /\ UNCHANGED <<saveContent, uploads>>
     ELSE /\ saveContent' = [saveContent EXCEPT ![c] = docText]
          /\ uploads' = uploads + 1
          /\ savePc' = [savePc EXCEPT ![c] = "uploading"]
          /\ UNCHANGED saveResult
  /\ UNCHANGED <<fileCache, docOpen, docText, remoteContent, openPc, lastSynced>>
  /\ UNCHANGED notSync

\* the upload succeeds: the server stores the text and the entry takes it
SaveUploadOk(c) ==
  /\ savePc[c] = "uploading"
  /\ remoteContent' = saveContent[c]
  /\ lastSynced' = <<saveContent[c]>>
  /\ fileCache' = <<saveContent[c]>>
  /\ saveResult' = [saveResult EXCEPT ![c] = "Saved file"]
  /\ savePc' = [savePc EXCEPT ![c] = "returned"]
  /\ UNCHANGED <<docOpen, docText, openPc, saveContent, uploads>>
  /\ UNCHANGED notSync

StoredOnFailure(originalContent, content) == content

\* the catch clause of saveFile does not touch the entry
KeptOnFailure(originalContent, content) == originalContent

\* the upload fails: apiFetch throws and the catch clause reports it
SaveUploadFail(c) ==
  /\ savePc[c] = "uploading"
  /\ fileCache' = <<KeptOnFailure(fileCache[1], saveContent[c])>>
  /\ saveResult' = [saveResult EXCEPT ![c] = "Failed to save file"]
  /\ savePc' = [savePc EXCEPT ![c] = "returned"]
  /\ UNCHANGED <<docOpen, docText, remoteContent, openPc, saveContent, uploads,
                 lastSynced>>
  /\ UNCHANGED notSync

SyncNext ==
  \/ \E o \in Opens : OpenStart(o)
  \/ \E o \in Opens : OpenDownloadOk(o)
  \/ \E o \in Opens : OpenDownloadFail(o)
  \/ EditDocument
  \/ RemoteWrite
  \/ \E c \in Saves : SaveStart(c)
  \/ \E c \in Saves : SaveUploadOk(c)
  \/ \E c \in Saves : SaveUploadFail(c)

\* ----------------------------------------- ChatPanelManager.showForProject

\* Number of projects and of showForProject calls.
NumProjects == 2

NumShows == 2

Projects == 1..NumProjects

Shows == 1..NumShows

RegReset ==
  /\ panels = [p \in Projects |-> 0]
  /\ panelCount = 0
  /\ panelOf = [i \in Shows |-> 0]
  /\ disposed = {}
  /\ listening = {}
  /\ showProject = [c \in Shows |-> 0]
  /\ showPanel = [c \in Shows |-> 0]
  /\ revealed = [c \in Shows |-> 0]

RegInit ==
  /\ showPc = [c \in Shows |-> "idle"]
  /\ RegReset

RegIdle ==
  /\ showPc = [c \in Shows |-> "returned"]
  /\ RegReset

\* showForProject up to its first await: the registered panel is revealed
\* (reveal of a disposed panel may throw), or a panel is created and
\* registered and updateContent is awaited
ShowForProject(c) ==
  /\ showPc[c] = "idle"
  /\ \E project \in Projects :
       /\ showProject' = [showProject EXCEPT ![c] = project]
       /\ IF panels[project] # 0
          THEN /\ revealed' = [revealed EXCEPT ![c] = panels[project]]
               /\ \E ends \in IF panels[project] \in disposed
                               THEN {"returned", "threw"} ELSE {"returned"} :
                    showPc' = [showPc EXCEPT ![c] = ends]
               /\ UNCHANGED <<panels, panelCount, panelOf, showPanel>>
          ELSE LET panel == panelCount + 1
               IN /\ panelCount' = panel
                  /\ panelOf' = [panelOf EXCEPT ![panel] = project]
                  /\ panels' = [panels EXCEPT ![project] = panel]
                  /\ showPanel' = [showPanel EXCEPT ![c] = panel]
                  /\ showPc' = [showPc EXCEPT ![c] = "updating"]
                  /\ UNCHANGED revealed
  /\ UNCHANGED <<disposed, listening>>
  /\ UNCHANGED notReg

\* updateContent is over: the html is set (on a disposed panel that may
\* throw), the message handlers and the onDidDispose handler are registered
\* and loadChatHistory is awaited
UpdateContentDone(c) ==
  /\ showPc[c] = "updating"
  /\ \E throws \in IF showPanel[c] \in disposed THEN BOOLEAN ELSE {FALSE} :
       IF throws
       THEN /\ showPc' = [showPc EXCEPT ![c] = "threw"]
            /\ UNCHANGED listening
       ELSE /\ showPc' = [showPc EXCEPT ![c] = "loading"]
            /\ listening' = listening \cup {showPanel[c]}
  /\ UNCHANGED <<panels, panelCount, panelOf, disposed, showProject, showPanel,
                 revealed>>
  /\ UNCHANGED notReg

\* loadChatHistory is over (it catches its own failures)
LoadHistoryDone(c) ==
  /\ showPc[c] = "loading"
  /\ showPc' = [showPc EXCEPT ![c] = "returned"]
  /\ UNCHANGED <<panels, panelCount, panelOf, disposed, listening, showProject,
                 showPanel, revealed>>
  /\ UNCHANGED notReg

\* the user closes a panel: the handler, when it is registered, deletes the
\* entry of the panel's project
DisposePanel(panel) ==
  /\ panel \in 1..panelCount
  /\ panel \notin disposed
  /\ disposed' = disposed \cup {panel}
  /\ panels' = IF panel \in listening
               THEN [panels EXCEPT ![panelOf[panel]] = 0]
               ELSE panels
  /\ UNCHANGED <<panelCount, panelOf, listening, showPc, showProject, showPanel,
                 revealed>>
  /\ UNCHANGED notReg

RegNext ==
  \/ \E c \in Shows : ShowForProject(c)
  \/ \E c \in Shows : UpdateContentDone(c)
  \/ \E c \in Shows : LoadHistoryDone(c)
  \/ \E panel \in Shows : DisposePanel(panel)

\* ------------------------------------------------------- specifications

vars == <<monVars, ctxVars, todoVars, apiVars, dlVars, panVars, sideVars, delVars,
          syncVars, regVars>>

Init == MonInit /\ CtxIdle /\ TodoIdle /\ ApiIdle /\ DlIdle /\ PanIdle
    /\ SideIdle /\ DelIdle /\ SyncIdle /\ RegIdle

Next == MonNext

Spec == Init /\ [][Next]_vars

\* every request monitorSession awaits is eventually answered: the SSE
\* request, each reader.read() (a chunk, done or a rejection) and the stop
\* request; the user is under no obligation to cancel
MonFair ==
  /\ WF_vars(ConnectOk \/ ConnectFail)
  /\ WF_vars(ReadError \/ ReadEnd \/ ReadChunk)
  /\ WF_vars(StopOk \/ StopFail)

LiveSpec == Init /\ [][Next]_vars /\ MonFair

ContentStart == ContentInit /\ CtxIdle /\ TodoIdle /\ ApiIdle /\ DlIdle /\ PanIdle
    /\ SideIdle /\ DelIdle /\ SyncIdle /\ RegIdle

\* startAISession runs on sessions that answer with content frames only
ContentSpec == ContentStart /\ [][Next]_vars

CtxStart == CtxInit /\ MonIdle /\ TodoIdle /\ ApiIdle /\ DlIdle /\ PanIdle
    /\ SideIdle /\ DelIdle /\ SyncIdle /\ RegIdle

CtxSpec == CtxStart /\ [][CtxNext]_vars

TodoStart == TodoInit /\ MonIdle /\ CtxIdle /\ ApiIdle /\ DlIdle /\ PanIdle
    /\ SideIdle /\ DelIdle /\ SyncIdle /\ RegIdle

TodoSpec == TodoStart /\ [][TodoNext]_vars

ApiStartState == ApiInit /\ MonIdle /\ CtxIdle /\ TodoIdle /\ DlIdle /\ PanIdle
    /\ SideIdle /\ DelIdle /\ SyncIdle /\ RegIdle

ApiSpec == ApiStartState /\ [][ApiNext]_vars

DlStart == DlInit /\ MonIdle /\ CtxIdle /\ TodoIdle /\ ApiIdle /\ PanIdle
    /\ SideIdle /\ DelIdle /\ SyncIdle /\ RegIdle

DlSpec == DlStart /\ [][DlNext]_vars

PanStart == PanInit /\ MonIdle /\ CtxIdle /\ TodoIdle /\ ApiIdle /\ DlIdle
    /\ SideIdle /\ DelIdle /\ SyncIdle /\ RegIdle

PanSpec == PanStart /\ [][PanNext]_vars

SideStart == SideInit /\ MonIdle /\ CtxIdle /\ TodoIdle /\ ApiIdle /\ DlIdle /\ PanIdle
    /\ DelIdle /\ SyncIdle /\ RegIdle

SideSpec == SideStart /\ [][SideNext]_vars

DeleteStart == DelInit /\ MonIdle /\ CtxIdle /\ TodoIdle /\ ApiIdle /\ DlIdle /\ PanIdle
    /\ SideIdle /\ SyncIdle /\ RegIdle

DeleteSpec == DeleteStart /\ [][DelNext]_vars

SyncStart == SyncInit /\ MonIdle /\ CtxIdle /\ TodoIdle /\ ApiIdle /\ DlIdle /\ PanIdle
    /\ SideIdle /\ DelIdle /\ RegIdle

SyncSpec == SyncStart /\ [][SyncNext]_vars

RegStart == RegInit /\ MonIdle /\ CtxIdle /\ TodoIdle /\ ApiIdle /\ DlIdle /\ PanIdle
    /\ SideIdle /\ DelIdle /\ SyncIdle

RegSpec == RegStart /\ [][RegNext]_vars

\* ------------------------------------------ properties of the sidebar pump

\* C35: a complete or error frame is the last message streamSse posts to the
\* webview, and no read is started after it was posted.
C35_NothingAfterTerminalFrame ==
  /\ \A i \in 1..Len(sidePosted) :
        sidePosted[i] \in {"complete", "error"} => i = Len(sidePosted)
  /\ ~sideReadAfterTerminal

\* ------------------------------------------- properties of the batch delete

\* the selected items that are files
SelectedFiles == {i \in 1..Len(selected) : selected[i]}

\* C36: no file is requested twice; while the loop runs the files handled
\* are the ones counted; when the command has run through, every selected
\* file was requested once, nothing else was, and the two counts add up to
\* the number of selected files, whatever the answers were.
C36_EveryFileAttemptedOnce ==
  /\ \A i \in 1..MaxSelected : attempts[i] <= 1
  /\ delPc = "loop" =>
        /\ successCount + errorCount = delIndex
        /\ Cardinality({i \in 1..MaxSelected : attempts[i] = 1}) = delIndex
  /\ delPc = "done" =>
        /\ \A i \in 1..MaxSelected :
              attempts[i] = (IF i \in SelectedFiles THEN 1 ELSE 0)
        /\ successCount + errorCount = Cardinality(SelectedFiles)
        /\ Len(delLog) = Cardinality(SelectedFiles)

\* C36 witness: the first request failed, a later one succeeded, and the
\* command ran through with both counted.
C36_Witness ==
  /\ delPc = "done"
  /\ Len(delLog) >= 2
  /\ delLog[1][2] = "failed"
  /\ delLog[Len(delLog)][2] = "deleted"
  /\ successCount >= 1
  /\ errorCount >= 1

\* ----------------------------------------------- properties of file-sync

\* C37: the entry's originalContent is what the last completed download
\* served or the last successful upload stored; an upload is sent only when
\* the document text differs from it, a failing upload leaves it as it was,
\* and it changes only when a download or an upload succeeds.
C37_CacheTracksLastSync ==
  /\ [](fileCache = lastSynced)
  /\ [][uploads' # uploads =>
           (fileCache # <<>> /\ docText # fileCache[1])]_vars
  /\ [][\A c \in Saves :
           (saveResult'[c] = "Failed to save file" /\ saveResult[c] = "none")
             => fileCache' = fileCache]_vars
  /\ [][fileCache' # fileCache =>
           \/ \E o \in Opens : openPc[o] = "downloading" /\ openPc'[o] = "returned"
           \/ \E c \in Saves : saveResult[c] = "none" /\ saveResult'[c] = "Saved file"]_vars

\* C37 witness: one save was uploaded, a later one failed; the entry holds the
\* uploaded text and the document a different one.
C37_Witness ==
  /\ \E c \in Saves : saveResult[c] = "Saved file"
  /\ \E c \in Saves : saveResult[c] = "Failed to save file"
  /\ fileCache = <<remoteContent>>
  /\ docText # fileCache[1]

\* -------------------------------------- properties of the panel registry

\* C38: each project has at most one panel that is not disposed, a call that
\* reveals a panel creates none, a panel that is not disposed is the entry of
\* its project, and no entry is a disposed panel.
C38_RegistryTracksLivePanels ==
  /\ \A p \in Projects :
        Cardinality({i \in 1..panelCount : panelOf[i] = p /\ i \notin disposed}) <= 1
  /\ \A c \in Shows : revealed[c] # 0 => showPanel[c] = 0
  /\ \A i \in (1..panelCount) \ disposed : panels[panelOf[i]] = i
  /\ \A p \in Projects : panels[p] \notin disposed

\* ---------------------------------------- properties of downloadArtifacts

\* an artifact path without its leading 'output/'
Stripped(path) ==
  CASE path = <<"output", "a.h">> -> <<"a.h">>
    [] path = <<"a.h">> -> <<"a.h">>
    [] path = <<"output", "sub", "b.bin">> -> <<"sub", "b.bin">>

\* the workspace's output folder is the destination root
UnderRoot(relative) == <<"output">> \o relative

\* where an artifact of the list belongs
TargetOf(i) == UnderRoot(Stripped(data.artifacts[i].path))

\* the last artifact of the list that belongs where artifact i belongs
LastFor(i) ==
  CHOOSE j \in i..Len(data.artifacts) :
     /\ TargetOf(j) = TargetOf(i)
     /\ \A k \in (j + 1)..Len(data.artifacts) : TargetOf(k) # TargetOf(i)

\* the disk as the call found it
FilesBefore == IF dlCalls > 1 THEN previous.files ELSE NoFiles

DirectoriesBefore == IF dlCalls > 1 THEN previous.directories ELSE {}

\* C21: a downloadArtifacts call that returned on a list of n > 0 artifacts
\* returned n, and every artifact's content is in the file at its path
\* without the leading 'output/' below the output folder, whose directories
\* exist; every other file is as the call found it.
C21_ArtifactsWrittenUnderRoot ==
  (dlpc = "returned" /\ data.listed /\ Len(data.artifacts) > 0) =>
     /\ result = Len(data.artifacts)
     /\ \A i \in 1..Len(data.artifacts) :
          /\ TargetOf(i) \in DOMAIN files
          /\ files[TargetOf(i)] = <<data.artifacts[LastFor(i)].content>>
          /\ \A n \in 1..(Len(TargetOf(i)) - 1) :
               SubSeq(TargetOf(i), 1, n) \in directories
     /\ \A p \in DOMAIN files :
          \/ \E i \in 1..Len(data.artifacts) : p = TargetOf(i)
          \/ p \in DOMAIN FilesBefore /\ files[p] = FilesBefore[p]

\* C21 witness: the call returned 2 after writing output/a.h as a.h and
\* output/sub/b.bin as sub/b.bin below the output folder.
C21_Witness ==
  /\ dlpc = "returned"
  /\ result = 2
  /\ data.listed
  /\ data.artifacts = << [path |-> <<"output", "a.h">>, content |-> "x"],
                         [path |-> <<"output", "sub", "b.bin">>, content |-> "x"] >>
  /\ DOMAIN files = { <<"output", "a.h">>, <<"output", "sub", "b.bin">> }
  /\ <<"output", "sub">> \in directories

\* C22: a downloadArtifacts call that got past the artifact request with an
\* empty or missing list (or was made without a workspace folder) has returned 0, made no createDirectory and no writeFile call, and left files
\* and directories as they were.
C22_EmptyListWritesNothing ==
  (dlpc \in {"returned", "mkdir", "loop"}
     /\ (~data.listed \/ data.artifacts = <<>>)) =>
     /\ dlpc = "returned"
     /\ result = 0
     /\ fsCalls = 0
     /\ files = FilesBefore
     /\ directories = DirectoriesBefore

\* C22 witness: after a call that wrote files, a call whose answer lists no
\* artifact returned 0 and the disk is as that first call left it.
C22_Witness ==
  /\ dlCalls = 2
  /\ previous.result > 0
  /\ dlpc = "returned"
  /\ data.listed /\ data.artifacts = <<>>
  /\ result = 0
  /\ files = previous.files

\* C23: a downloadArtifacts call that returned after a call that returned on
\* the same artifact list leaves the files and directories of that call and
\* returns its count.
C23_SecondRunChangesNothing ==
  (/\ dlCalls > 1
   /\ dlpc = "returned"
   /\ previous.ended = "returned"
   /\ previous.data = data) =>
     /\ files = previous.files
     /\ directories = previous.directories
     /\ result = previous.result

\* C23 witness: two calls on the same list of two artifacts, both returned 2.
C23_Witness ==
  /\ dlCalls = 2
  /\ dlpc = "returned"
  /\ previous.ended = "returned"
  /\ previous.data = data
  /\ Len(data.artifacts) = 2
  /\ result = 2
  /\ previous.result = 2

\* C24: when createDirectory or writeFile threw for one artifact the call
\* goes on with the remaining artifacts, and once it has ended it has
\* returned the number of artifacts written, all but the failed one.
C24_WriteFailureDoesNotAbort ==
  failedIndex # 0 =>
     /\ dlpc \in {"loop", "returned"}
     /\ dlpc = "returned" =>
          /\ writes = Len(data.artifacts) - 1
          /\ result = writes

\* ----------------------------------------- properties of the panel's pump

\* C29: when a downloadArtifacts call of streamSSE threw, the catch clause of
\* handleSendMessage has run once and streamSSE is over, and no read was
\* started after the complete frame.
C29_DownloadFailurePropagates ==
  panelDownloadFailed =>
     /\ panelPc = "failed"
     /\ panelErrors = 1
     /\ ~panelReadAfterComplete

\* -------------------------------------------- properties of the API key

\* the body names the word in some spelling
Mentions(text, spellings) == \E i \in 1..Len(text) : text[i] \in spellings

\* expired, invalid or unauthorized, in any case
NamedPattern(text) ==
  Mentions(text, {"expired", "Expired", "INVALID", "Unauthorized"})

\* the same, or access denied
FullPattern(text) ==
  NamedPattern(text) \/ Mentions(text, {"Access denied"})

\* C17: a 401 or 403 response whose body names expired, invalid or
\* unauthorized in any case deletes the stored key and ends the call with the
\* authentication error after its single request.
C17_ExpiredKeyDeleted ==
  [][(/\ lastResponse' # lastResponse
      /\ lastResponse'.status \in {401, 403}
      /\ NamedPattern(lastResponse'.text)) =>
        (/\ secret' = "none"
         /\ apiResult'[lastResponse'.call] = "Authentication failed"
         /\ apc'[lastResponse'.call] = "done"
         /\ sentRequests'[lastResponse'.call] = 1)
    ]_vars

\* C17 witness: a 403 with the body "Expired" deleted the key.
C17_Witness ==
  /\ lastResponse.status = 403
  /\ lastResponse.text = <<"Expired">>
  /\ secret = "none"
  /\ apiResult[lastResponse.call] = "Authentication failed"

\* C18 (as stated): any response other than a 401/403 naming expired, invalid
\* or unauthorized leaves the key as it is, and if not ok ends the call with
\* the status-and-body error.
C18_OnlyNamedPatternClears ==
  [][(/\ lastResponse' # lastResponse
      /\ ~(lastResponse'.status \in {401, 403} /\ NamedPattern(lastResponse'.text))) =>
        (/\ secret' = secret
         /\ lastResponse'.status # 200 =>
              apiResult'[lastResponse'.call] = "status and text")
    ]_vars

\* C18 (amended): the same with 'access denied' added to the words that make
\* a 401/403 an authentication failure.
C18_OnlyAuthFailureClears ==
  [][(/\ lastResponse' # lastResponse
      /\ ~(lastResponse'.status \in {401, 403} /\ FullPattern(lastResponse'.text))) =>
        (/\ secret' = secret
         /\ lastResponse'.status # 200 =>
              apiResult'[lastResponse'.call] = "status and text")
    ]_vars

\* C18 witness: a 403 with an unrelated body left the key stored.
C18_Witness ==
  /\ lastResponse.status = 403
  /\ lastResponse.text = <<"forbidden">>
  /\ secret = "key"
  /\ apiResult[lastResponse.call] = "status and text"

C4_OneCreationForConcurrentAcquire ==
  \A p \in overlapped : \A q \in overlapped \ {p} :
     /\ ~(p \in sentCreate /\ q \in sentCreate)
     /\ (projectId[p] # undefined /\ projectId[q] # undefined) =>
           projectId[p] = projectId[q]

\* C5: the server never holds two ephemeral projects of the workspace that
\* were created and not yet cleaned up.
C5_AtMostOneLiveProject ==
  Cardinality(remoteProjects) <= 1

\* C15: a cleanupEphemeralProject call that ends never reaches the catch
\* clause of its caller; when the cleanup request succeeded the stored id is
\* cleared, when it failed the stored id is as it was and the failure is
\* logged; a getEphemeralProject call that then finds the id of the failed
\* cleanup stored returns it and no project is created.
C15_DisposeKeepsHandleOnFailure ==
  [][\A r \in Runs :
       /\ (rpc[r] = "cleaning" /\ rpc'[r] = "done") =>
             /\ runError'[r] = "none"
             /\ reports'[r] = 0
             /\ cleanupResult'[r] \in {"Ephemeral project cleaned up",
                                       "Failed to cleanup project"}
             /\ IF cleanupResult'[r] = "Ephemeral project cleaned up"
                THEN ephemeralProjectId' = undefined
                ELSE ephemeralProjectId' = ephemeralProjectId
       /\ (/\ rpc[r] = "start" /\ rpc'[r] # "start"
           /\ ephemeralProjectId # undefined
           /\ FailedCleanupOf(ephemeralProjectId)) =>
             /\ projectId'[r] = ephemeralProjectId
             /\ created' = created
             /\ sentCreate' = sentCreate
    ]_vars

\* C15 witness: a run got from getEphemeralProject the id whose cleanup had
\* just failed, and the server has created one project only.
C15_Witness ==
  \E r \in Runs :
     /\ acquiredFrom[r] = "stored after failed cleanup"
     /\ FailedCleanupOf(projectId[r])
     /\ created = 1

\* C16: getEphemeralProject returns the stored id and sends nothing when an
\* id is stored; otherwise it sends one creation request, and when that is
\* answered stores the new id and returns it; when the request fails the
\* stored id is not set by the call and no project was created.
C16_AcquireCachedOrCreated ==
  [][\A r \in Runs :
       /\ (rpc[r] = "start" /\ rpc'[r] # "start") =>
             IF ephemeralProjectId # undefined
             THEN /\ rpc'[r] = "upload"
                  /\ projectId'[r] = ephemeralProjectId
                  /\ sentCreate' = sentCreate
             ELSE /\ rpc'[r] = "creating"
                  /\ r \notin sentCreate
                  /\ sentCreate' = sentCreate \cup {r}
       /\ (rpc[r] = "start" /\ rpc'[r] # "start") =>
             /\ ephemeralProjectId' = ephemeralProjectId
             /\ remoteProjects' = remoteProjects
             /\ created' = created
       /\ (rpc[r] = "creating" /\ rpc'[r] = "upload") =>
             /\ projectId'[r] \in remoteProjects' \ remoteProjects
             /\ ephemeralProjectId' = projectId'[r]
             /\ created' = created + 1
       /\ (rpc[r] = "creating" /\ rpc'[r] = "done") =>
             /\ ephemeralProjectId' = ephemeralProjectId
             /\ projectId'[r] = undefined
             /\ remoteProjects' = remoteProjects
    ]_vars

\* C16 witness: one run created the project and another got the stored id.
C16_Witness ==
  \E r \in Runs : \E q \in Runs :
     /\ acquiredFrom[r] = "created"
     /\ acquiredFrom[q] # "created"
     /\ projectId[q] = projectId[r]
     /\ sentCreate = {r}

\* C20: a run whose dispatch failed has ended with the failure shown once
\* after its single dispatch request; it has no session id, the failing step
\* leaves 'currentSessionId' as it was, and the run called neither
\* monitorSession nor downloadArtifacts nor cleanupEphemeralProject.
C20_DispatchFailureEndsRun ==
  [][\A r \in Runs :
       runError'[r] = "dispatch" =>
          /\ rpc'[r] = "done"
          /\ sessionId'[r] = undefined
          /\ reports'[r] = 1
          /\ dispatchRequests'[r] = 1
          /\ monitorCalls'[r] = 0
          /\ downloadCalls'[r] = 0
          /\ cleanupResult'[r] = "none"
          /\ runError[r] # "dispatch" =>
                /\ currentSessionId' = currentSessionId
                /\ dispatched' = dispatched
    ]_vars

\* C20 witness: a run's dispatch failed after the run had its project.
C20_Witness ==
  \E r \in Runs :
     /\ runError[r] = "dispatch"
     /\ projectId[r] # undefined
     /\ rpc[r] = "done"
     /\ reports[r] = 1

\* C25: newSessionCommand clears 'ephemeralProjectId' with its first update
\* and 'currentSessionId' with its second; a getEphemeralProject call that
\* finds no id stored sends a creation request, and the id it gets is one
\* the server has not given out before.
C25_NewSessionClearsBoth ==
  [][/\ (nspc = "idle" /\ nspc' = "clearSession") => ephemeralProjectId' = undefined
     /\ (nspc = "clearSession" /\ nspc' = "idle") => currentSessionId' = undefined
     /\ \A r \in Runs :
          /\ (rpc[r] = "start" /\ rpc'[r] # "start" /\ ephemeralProjectId = undefined) =>
                (rpc'[r] = "creating" /\ r \in sentCreate')
          /\ (rpc[r] = "creating" /\ rpc'[r] = "upload") =>
                (projectId'[r] > created /\ ephemeralProjectId' = projectId'[r])
    ]_vars

\* C25 witness: project 1 was never cleaned up and no two creation requests
\* overlapped, so only newSessionCommand can have cleared the stored id; the
\* run that came next got the new project 2, and no session id is stored.
C25_Witness ==
  \E r \in Runs :
     /\ acquiredFrom[r] = "created"
     /\ projectId[r] = 2
     /\ remoteProjects = {1, 2}
     /\ overlapped = {}
     /\ nspc = "idle"
     /\ dispatched > 0
     /\ currentSessionId = undefined

\* C26: a run is in or past cleanupEphemeralProject exactly when
\* downloadArtifacts returned it a positive count; when it returned 0 the
\* run ends there, and the step leaves the stored id and the server's
\* projects as they were.
C26_CleanupIffArtifacts ==
  [][\A r \in Runs :
       /\ (rpc'[r] = "cleaning" \/ cleanupResult'[r] # "none")
             <=> downloaded'[r] = "artifacts"
       /\ (downloaded[r] = "none" /\ downloaded'[r] = "nothing") =>
             /\ rpc'[r] = "done"
             /\ ephemeralProjectId' = ephemeralProjectId
             /\ remoteProjects' = remoteProjects
    ]_vars

\* C26 witness: a run ended after downloadArtifacts returned 0; its project
\* is still stored and still held by the server.
C26_Witness ==
  \E r \in Runs :
     /\ downloaded[r] = "nothing"
     /\ rpc[r] = "done"
     /\ cleanupResult[r] = "none"
     /\ ephemeralProjectId = projectId[r]
     /\ projectId[r] \in remoteProjects

\* C27: while one run of startAISession has started and not ended, no other
\* run is at its dispatch request or in monitorSession.
C27_OneActiveSession ==
  \A r \in Runs : \A q \in Runs \ {r} :
     ~(rpc[r] \notin {"start", "done"} /\ rpc[q] \in {"dispatch", "monitor"})

\* C30: the project of a run that is in monitorSession is held by the server.
C30_NoTeardownUnderLiveSession ==
  \A r \in Runs :
     rpc[r] = "monitor" => projectId[r] \in remoteProjects

\* C31: a successful cleanup of run r leaves the stored id as it is when the
\* stored id is another project's: one stored by a later getEphemeralProject
\* after newSessionCommand had cleared the id of r.
C31_CleanupKeepsNewerHandle ==
  [][\A r \in Runs :
        ( /\ rpc[r] = "cleaning"
          /\ rpc'[r] = "done"
          /\ cleanupResult'[r] = "Ephemeral project cleaned up"
          /\ overlapped = {}
          /\ ephemeralProjectId # undefined
          /\ ephemeralProjectId # projectId[r] )
        => ephemeralProjectId' = ephemeralProjectId]_vars

\* C32: a run whose monitorSession rejected with 'User cancelled' ends there:
\* downloadArtifacts and cleanupEphemeralProject are not called, no error is
\* shown, and the step leaves the stored id and the server's projects as
\* they were.
C32_StoppedRunEndsQuietly ==
  [][\A r \in Runs :
        caught'[r] = "User cancelled"
        => /\ rpc'[r] = "done"
           /\ runError'[r] = "monitor"
           /\ downloadCalls'[r] = 0
           /\ downloaded'[r] = "none"
           /\ cleanupResult'[r] = "none"
           /\ reports'[r] = 0
           /\ ( caught[r] # "User cancelled"
                => /\ ephemeralProjectId' = ephemeralProjectId
                   /\ remoteProjects' = remoteProjects )]_vars

\* C32 witness: a cancelled run has ended with its project still stored and
\* still held by the server.
C32_Witness ==
  \E r \in Runs :
     /\ caught[r] = "User cancelled"
     /\ rpc[r] = "done"
     /\ ephemeralProjectId = projectId[r]
     /\ projectId[r] \in remoteProjects

\* ------------------------------------------------- properties of the pump

Range(f) == {f[i] : i \in 1..Len(f)}

Terminal == {"complete", "error"}

\* pump run on everything delivered so far as if it had come as one chunk
WholeDecode ==
  ProcessChunk(<<>>, SubSeq(stream, 1, pos),
               [resp |-> <<>>, applied |-> <<>>, sink |-> <<>>, completed |-> FALSE])

\* C1: once an Error event has been dispatched on, monitorSession has failed
\* with it at once: the error is the last event applied, no read is pending,
\* startAISession has reported the failure and has not called downloadArtifacts.
C1_ErrorFailsImmediately ==
  "error" \in Range(applied) =>
     /\ applied[Len(applied)] = "error"
     /\ outcome = "Failed"
     /\ pc = "done"
     /\ reported
     /\ downloads = 0

\* C2: when the transport has reported end-of-stream and neither Complete nor
\* Error was seen, monitorSession has failed with "stream closed unexpectedly".
C2_EndOfStreamFails ==
  (eos /\ Range(applied) \cap Terminal = {}) =>
     /\ outcome = "Failed"
     /\ errorMessage = "stream closed unexpectedly"

\* C3: downloadArtifacts is called only after a Complete event was applied.
C3_DownloadOnlyAfterComplete ==
  downloads > 0 => "complete" \in Range(applied)

\* C6: when the token is signaled before the first call of pump, exactly one
\* stop request is sent, no read is started, no event is applied and
\* monitorSession ends Stopped.
C6_CancelledAtEntryStops ==
  entryCancelled =>
     /\ stopRequests = 1
     /\ ~readStarted
     /\ applied = <<>>
     /\ outcome \in {"Pending", "Stopped"}
     /\ (pc = "done" => outcome = "Stopped")

\* C7: once a stop request was sent, startAISession ends with the monitor
\* Stopped and without a reported failure, whatever the stop request answered.
C7_StopIsBestEffort ==
  (stopRequests > 0 /\ pc = "done") => (outcome = "Stopped" /\ ~reported)

\* C8 (as stated): after a cancellation signaled during an in-flight read,
\* nothing the read delivers is applied or forwarded.
C8_NothingAppliedAfterCancel ==
  appliedAtCancel >= 0 => Len(applied) = appliedAtCancel

\* C8 (amended): signalling the token changes nothing but the token; a read
\* that returns a chunk without Complete under a signaled token is followed by
\* exactly one stop request instead of a read; while the stop request is
\* pending nothing is applied, forwarded or read and the run then ends.
C8_CancelSeenAtNextIteration ==
  [][/\ (~cancelRequested /\ cancelRequested') =>
           (pc' = pc /\ stopRequests' = stopRequests /\ applied' = applied
              /\ sinkLog' = sinkLog)
     /\ (pc = "reading" /\ cancelRequested /\ pos' > pos
           /\ "complete" \notin Range(applied')) =>
           (pc' = "stopping" /\ stopRequests' = stopRequests + 1)
     /\ pc = "stopping" =>
           (/\ applied' = applied /\ sinkLog' = sinkLog /\ pos' = pos
            /\ stopRequests' = stopRequests
            /\ pc' \in {"stopping", "done"})
    ]_vars

\* C8 witness: a read in flight at the cancellation delivered frames that were
\* applied, and the stop request followed.
C8_Witness ==
  /\ appliedAtCancel >= 0
  /\ Len(applied) > appliedAtCancel
  /\ stopRequests = 1

\* C9: a terminal event is the last event applied, and no read or stop
\* request is pending after it.
C9_NothingAfterTerminal ==
  \A i \in 1..Len(applied) :
     applied[i] \in Terminal =>
        (i = Len(applied) /\ pc \notin {"reading", "stopping"})

\* C10: whatever the chunking, the events applied and forwarded so far are
\* those the pump produces from the same text delivered as one chunk.
C10_ChunkingIrrelevant ==
  /\ applied = WholeDecode.st.applied
  /\ sinkLog = WholeDecode.st.sink

\* C10 witness: a whole multi-frame stream was decoded with a chunk boundary
\* inside a blank-line delimiter.
C10_Witness ==
  /\ cutInDelim
  /\ pos = Len(stream)
  /\ Len(applied) >= 2

\* C28: never more than one reader.read() call is unsettled; while one is,
\* the buffer holds no blank-line delimiter and every frame decoded from the
\* text delivered so far has been applied and forwarded.
C28_OneReadAtATime ==
  /\ outstanding <= 1
  /\ pc = "reading" =>
       /\ outstanding = 1
       /\ Len(SplitFrames(buffer)) = 1
       /\ applied = WholeDecode.st.applied
       /\ sinkLog = WholeDecode.st.sink
  /\ pc # "reading" => outstanding = 0

\* C28 witness: a further read is under way after an earlier one delivered
\* frames that were applied, and the buffer holds the beginning of a frame.
C28_Witness ==
  /\ pc = "reading"
  /\ outstanding = 1
  /\ Len(applied) >= 1
  /\ buffer # <<>>

IsPayload(tok) == tok \in Payloads

\* the payloads of the frames of a text, in the order they were framed
PayloadsOf(text) == SelectSeq(text, IsPayload)

\* the number of frames whose closing blank line has been delivered
FramesDelivered ==
  Cardinality({i \in 2..pos : stream[i] = "NL" /\ stream[i - 1] = "NL"})

\* the payloads of the delivered frames, up to the first complete frame
RECURSIVE UpToComplete(_)
UpToComplete(fs) ==
  IF fs = <<>> THEN <<>>
  ELSE IF Head(fs) = "k" THEN <<"k">>
  ELSE <<Head(fs)>> \o UpToComplete(Tail(fs))

Framed == UpToComplete(SubSeq(PayloadsOf(stream), 1, FramesDelivered))

\* the events of a sequence of framed payloads: one per valid JSON object
RECURSIVE EventsOf(_)
EventsOf(fs) ==
  IF fs = <<>> THEN <<>>
  ELSE (IF Head(fs) \in JsonObjects THEN <<TypeOf(Head(fs))>> ELSE <<>>)
         \o EventsOf(Tail(fs))

\* the message texts of the content frames among them, concatenated
RECURSIVE TextOf(_)
TextOf(fs) ==
  IF fs = <<>> THEN <<>>
  ELSE (IF TypeOf(Head(fs)) = "content" THEN MessageOf(Head(fs)) ELSE <<>>)
         \o TextOf(Tail(fs))

IsProgress(tok) == tok = "p"

IsAssistant(entry) == entry[1] = "assistant"

IsReport(entry) == entry[1] = "report"

\* the end of the last blank-line delimiter delivered so far (0 when none)
LastDelimiterEnd ==
  LET ends == {i \in 2..pos : stream[i] = "NL" /\ stream[i - 1] = "NL"}
  IN IF ends = {} THEN 0 ELSE CHOOSE i \in ends : \A j \in ends : j <= i

\* what has been delivered after the last delimiter
Unterminated == SubSeq(stream, LastDelimiterEnd + 1, pos)

\* the applied events of a type, and the delivered closed frames of that type
AppliedOfType(t) == Cardinality({i \in 1..Len(applied) : applied[i] = t})

ClosedOfType(t) ==
  Cardinality({i \in 1..FramesDelivered : TypeOf(PayloadsOf(stream)[i]) = t})

\* C33: the buffer is what was delivered after the last blank line and no
\* event comes from it: the events applied are at most one per closed frame,
\* per type at most one per closed frame of that type, and a Complete frame
\* whose blank line had not come when the stream ended was not applied.
C33_SegmentNeedsBlankLine ==
  /\ buffer = Unterminated
  /\ Len(applied) <= FramesDelivered
  /\ \A tok \in Range(PayloadsOf(Unterminated)) \cap JsonObjects :
        AppliedOfType(TypeOf(tok)) <= ClosedOfType(TypeOf(tok))
  /\ (eos /\ "k" \in Range(Unterminated) /\ ClosedOfType("complete") = 0)
        => "complete" \notin Range(applied)

\* C33 witness: the stream ended after a content frame and a Complete frame
\* without its blank line; only the content event was applied.
C33_Witness ==
  /\ eos
  /\ "k" \in Range(buffer)
  /\ applied = <<"content">>
  /\ pc \notin {"connect", "reading"}

\* C11: once a frame that is not valid JSON has been delivered, the events
\* applied are exactly those of the valid frames around it (the ones before it
\* stay, the ones after it follow), and a Complete frame delivered after it
\* has made monitorSession resolve.
C11_InvalidFrameDropped ==
  "j" \in Range(Framed) =>
     /\ applied = EventsOf(Framed)
     /\ "k" \in Range(Framed) =>
           (outcome = "Returned" /\ applied[Len(applied)] = "complete")

\* C11 witness: content, an invalid frame, then Complete: the session completed
\* with both valid events applied.
C11_Witness ==
  /\ Framed = <<"c", "j", "k">>
  /\ applied = <<"content", "complete">>
  /\ outcome = "Returned"

\* C12: the events applied are those of the delivered frames in framed order,
\* each once; the sink got one report per progress frame, in order, and the
\* assistant message after them.
C12_FramedOrder ==
  /\ applied = EventsOf(Framed)
  /\ SelectSeq(sinkLog, IsReport) =
       [i \in 1..Len(SelectSeq(Framed, IsProgress)) |-> <<"report">>]
  /\ \A i \in 1..Len(sinkLog) : IsAssistant(sinkLog[i]) => i = Len(sinkLog)

\* C12 witness: three events of a stream delivered in several chunks, one of
\* them cut inside a delimiter, were applied in framed order.
C12_Witness ==
  /\ cutInDelim
  /\ applied = <<"progress", "content", "complete">>
  /\ Len(sinkLog) = 2

\* C13 (as stated): once Content events were followed by Complete, the sink
\* holds exactly one assistant message, the concatenation of their texts.
C13_OneMessagePerCompletion ==
  ("content" \in Range(applied) /\ "complete" \in Range(applied)) =>
     SelectSeq(sinkLog, IsAssistant) = << <<"assistant", TextOf(Framed)>> >>

\* C13 (amended): no assistant message before Complete; at Complete exactly
\* one, the concatenation of the content texts in framed order, if that text
\* is not empty, and none if it is empty.
C13_ContentFlushedAtComplete ==
  SelectSeq(sinkLog, IsAssistant) =
     IF "complete" \in Range(applied) /\ TextOf(Framed) # <<>>
     THEN << <<"assistant", TextOf(Framed)>> >>
     ELSE <<>>

\* C13 witness: two content texts then Complete gave one message with both.
C13_Witness ==
  /\ Framed = <<"c", "d", "k">>
  /\ sinkLog = << <<"assistant", <<"c", "d">>>> >>

====
